---- MODULE Spec2Model ----
(***************************************************************************)
(* Funding orchestrator of boo-privacy: FundingPanel.handleFund, the       *)
(* zustand store it writes (lib/store.ts) and the balance context it       *)
(* pauses.  JavaScript runs each callback to its next await without        *)
(* interleaving, so one action is one synchronous segment of a handler:    *)
(* from an event (a click, a promise settling) to the next await.          *)
(* Amounts are lamports; the source computes them as floating-point SOL    *)
(* and floors on submission, the model divides integers (rounding down).   *)
(* The values handleFund reads from its closure (selectedWallets,          *)
(* amountNum, needsShielding, amountToShield, protocolFee) are those of    *)
(* the render committed when the button is pressed; they are captured in   *)
(* the run record.  localStorage is assumed to work.                       *)
(***************************************************************************)
EXTENDS Integers, Sequences, FiniteSets, TLC

\* ---------------------------------------------------------------- bounds
MaxRuns == 2
NumWallets == 2
\* shield/unshield actions of the ShieldPanel in one session
MaxShieldActions == 1
\* largest per-wallet amount of the fee round trip, in thousandths of a SOL
MaxMilliSol == 20
MaxBalanceCalls == 2
MaxFillMilliSol == 30
MIN_SIGNATURE_LENGTH == 80
DIRECT_ATTEMPTS == 3
SigByteLen == 2

\* ------------------------------------------------------ program constants
LAMPORTS_PER_SOL == 1000000000
\* PROTOCOL_FEE_RATE = 0.005, as a fraction of 1000
PROTOCOL_FEE_PER_MILLE == 5
\* WITHDRAWAL_FEE_RATE = 0.0035, as a fraction of 10000
WITHDRAWAL_FEE_PER_10K == 35
\* WITHDRAWAL_RENT = 0.006 SOL
WITHDRAWAL_RENT == 6000000
\* deposit() refuses unless the on-chain balance covers lamports + 10000
DEPOSIT_MARGIN == 10000

Runs == 1..MaxRuns
Wallets == 0..(NumWallets - 1)

\* values the user can type as "SOL per wallet": "0" and the default "0.01"
DefaultAmount == LAMPORTS_PER_SOL \div 100
AmountChoices == {0, DefaultAmount}
\* private-pool and on-chain balances the session may start with
InitialPool == {0, 4 * (LAMPORTS_PER_SOL \div 100)}
InitialPublic == {0, LAMPORTS_PER_SOL \div 10}

\* the amount the ShieldPanel's input can hold
ShieldAmounts == {DefaultAmount}
Modes == {"shield", "unshield"}

NoSig == <<>>
NoErr == ""

VARIABLES
  selectedWallets,   \* store.selectedWallets
  amountPerWallet,   \* store.amountPerWallet, parsed (amountNum), in lamports
  fundingStatus,     \* store.fundingStatus
  fundingTasks,      \* store.fundingTasks
  storeShielded,     \* store.shieldedBalanceLamports
  isShielding,       \* FundingPanel useState
  progress,          \* FundingPanel useState, percent
  abortRef,          \* FundingPanel useRef
  isPaused,          \* BalanceProvider useState
  shieldedBalance,   \* BalanceProvider shieldedBalance, as FundingPanel reads it
  publicBalance,     \* BalanceProvider publicBalance
  refreshing,        \* a balance refresh is in flight
  credential,        \* localStorage holds a signature for the wallet address
  pool,              \* the account's balance in the privacy pool
  chainPublic,       \* the account's on-chain balance
  run,               \* one record per handleFund invocation
  spPc,              \* ShieldPanel.handleAction: where it is waiting
  spInitialized,     \* ShieldPanel useState isInitialized
  spMode,            \* ShieldPanel mode of the action in progress
  spAmount,          \* ShieldPanel amountNum of the action in progress, lamports
  spCount,           \* ShieldPanel actions started so far
  fwr,               \* API proxy: one call of fetchWithRetry
  gb,                \* PrivacyCashClient: sdkLoaded and its getBalance calls
  spForm,            \* ShieldPanel useState mode and amount (the input field)
  route,             \* deposit route: one POST request being handled
  session,           \* active wallet address, stored credentials, the three
                     \* clientRef caches and the operations issued
  keyStore,          \* localStorage entry of one account and how it was written
  wg,                \* WalletGenerator: wallet set, selection, archive, cache
  walletCache,       \* wallet persistence: localStorage entries of wallet sets
  fetchPatch         \* fetch interceptor: isPatched, originalFetch, window.fetch

spVars == <<spPc, spInitialized, spMode, spAmount, spCount>>

\* the library and server code the panels call, modelled one call at a time
libVars == <<fwr, gb, spForm, route, session, keyStore, wg, walletCache,
            fetchPatch>>

\* the panels and the balance context
mainVars == <<selectedWallets, amountPerWallet, fundingStatus, fundingTasks,
              storeShielded, isShielding, progress, abortRef, isPaused,
              shieldedBalance, publicBalance, refreshing, credential, pool,
              chainPublic, run, spPc, spInitialized, spMode, spAmount, spCount>>

vars == <<selectedWallets, amountPerWallet, fundingStatus, fundingTasks,
          storeShielded, isShielding, progress, abortRef, isPaused,
          shieldedBalance, publicBalance, refreshing, credential, pool,
          chainPublic, run, spPc, spInitialized, spMode, spAmount, spCount,
          fwr, gb, spForm, route, session, keyStore, wg, walletCache,
          fetchPatch>>

\* ------------------------------------------------------------- fee model
baseAmount(amountNum, walletCount) == amountNum * walletCount

totalWithdrawalFees(amountNum, walletCount) ==
  (baseAmount(amountNum, walletCount) * WITHDRAWAL_FEE_PER_10K) \div 10000
    + WITHDRAWAL_RENT * walletCount

totalWithFees(amountNum, walletCount) ==
  baseAmount(amountNum, walletCount) + totalWithdrawalFees(amountNum, walletCount)

\* variant of amountToShield: Math.max(0, ...) is left out
amountToShield_unclamped(shielded, total) == total - shielded

\* variant of needsShielding: the balance is not consulted
needsShielding_always(shielded, total) == TRUE

needsShielding(shielded, total) == shielded < total

amountToShield(shielded, total) == IF total - shielded > 0 THEN total - shielded ELSE 0

protocolFee(toShield) == (toShield * PROTOCOL_FEE_PER_MILLE) \div 1000

totalFromPublic(toShield) == toShield + protocolFee(toShield)

\* variant of canFund: the recipient count is not checked
canFund_noCountCheck(walletCount, amountNum, shielded, public) ==
  /\ amountNum > 0
  /\ \/ shielded >= totalWithFees(amountNum, walletCount)
     \/ public >= totalFromPublic(amountToShield(shielded, totalWithFees(amountNum, walletCount)))

canFund(walletCount, amountNum, shielded, public) ==
  /\ walletCount > 0
  /\ amountNum > 0
  /\ \/ shielded >= totalWithFees(amountNum, walletCount)
     \/ public >= totalFromPublic(amountToShield(shielded, totalWithFees(amountNum, walletCount)))

\* amount + fees requested per task, so that the recipient gets amountNum
withdrawAmountPerWallet(amountNum) ==
  amountNum + (amountNum * WITHDRAWAL_FEE_PER_10K) \div 10000 + WITHDRAWAL_RENT

\* ------------------------------------------------------------ task store
RECURSIVE SortedInsert(_, _)
SortedInsert(s, x) ==
  IF s = <<>> THEN <<x>>
  ELSE IF x <= Head(s) THEN <<x>> \o s
  ELSE <<Head(s)>> \o SortedInsert(Tail(s), x)

Includes(s, x) == \E k \in 1..Len(s) : s[k] = x

toggleWallet(sel, index) ==
  IF Includes(sel, index)
    THEN SelectSeq(sel, LAMBDA i : i # index)
    ELSE SortedInsert(sel, index)

\* tasks = selectedWallets.map(index => ({ id: `task-${index}`, ... }))
MakeTasks(sel, amountNum) ==
  [k \in 1..Len(sel) |->
     [id |-> sel[k], walletIndex |-> sel[k],
      amount |-> withdrawAmountPerWallet(amountNum),
      status |-> "pending", signature |-> NoSig, error |-> NoErr]]

\* variant of updateFundingTask: the id is not compared
updateFundingTask_all(tasks, id, update) ==
  [k \in 1..Len(tasks) |->
     [f \in DOMAIN tasks[k] |->
        IF f \in DOMAIN update THEN update[f] ELSE tasks[k][f]]]

\* { ...task, ...update } for the task whose id matches; update is a record
updateFundingTask(tasks, id, update) ==
  [k \in 1..Len(tasks) |->
     IF tasks[k].id = id
       THEN [f \in DOMAIN tasks[k] |->
               IF f \in DOMAIN update THEN update[f] ELSE tasks[k][f]]
       ELSE tasks[k]]

successCount == Cardinality({k \in 1..Len(fundingTasks) : fundingTasks[k].status = "success"})

isProcessing == fundingStatus = "distributing" \/ isShielding
isComplete == fundingStatus = "complete" \/ fundingStatus = "error"

\* --------------------------------------------------------- run records
NewRun ==
  [pc |-> "new", sel |-> <<>>, amount |-> 0, needs |-> FALSE, toShield |-> 0,
   fee |-> 0, i |-> 0, completed |-> 0, tasksCreated |-> FALSE,
   signAsked |-> FALSE, feeResult |-> "none", depositResult |-> "none",
   wlog |-> <<>>, startShielded |-> 0, endStatus |-> "none",
   feeSends |-> 0, depositCalls |-> 0]

\* no call of the proxy in progress
fwrIdle ==
  fwr = [pc |-> "idle", maxRetries |-> 0, baseDelayMs |-> 0, attempt |-> 0,
         requests |-> 0, outcomes |-> <<>>, waits |-> <<>>, lastError |-> 0,
         result |-> 0]

\* a client just constructed: sdkLoaded = false
gbIdle == gb = [pc |-> "idle", sdkLoaded |-> FALSE, calls |-> <<>>]

\* useState('shield'), useState(''): the amount in micro-SOL, parsed
spFormIdle == spForm = [mode |-> "shield", amount |-> 0, fromMax |-> FALSE]

\* null, and a value that is not a string
NullSig == [kind |-> "null", len |-> 0, chars |-> "none"]
NotAString == [kind |-> "other", len |-> 0, chars |-> "none"]
NoResponse == [status |-> 0, success |-> "absent", signature |-> NullSig,
               method |-> "none"]

\* no request received yet; let signature = null, lastError = null; failed
\* lists why each failed attempt threw, relayer how the relayer attempt
\* ended, sends counts the sendTransaction calls, delays lists the waits
routeIdle ==
  route = [pc |-> "idle", attempt |-> 0, signature |-> NullSig,
           lastError |-> FALSE, confirmErr |-> FALSE, failed |-> <<>>,
           response |-> NoResponse, relayer |-> "none", sends |-> 0,
           delays |-> <<>>]

Addresses == {"A", "B"}
\* clientRef.current = null
NoClient == "none"

\* the panels just mounted for address A with nothing stored
sessionIdle ==
  session = [active |-> "A", stored |-> [a \in Addresses |-> FALSE],
             fpClient |-> NoClient, spClient |-> NoClient, ctxClient |-> NoClient,
             spIsInitialized |-> FALSE, ops |-> {}]

\* localStorage.getItem(...) = null
NotStored == <<>>

\* nothing stored for the account; sig is the account's signature of the
\* fixed message, inits lists the initializations made
keyStoreIdle ==
  keyStore = [sig |-> <<>>, stored |-> NotStored, spIsInitialized |-> FALSE,
              inits |-> <<>>]

\* seed phrases of two wallet groups
Seeds == {"s1", "s2"}
\* walletSet: null
NoWalletSet == [seedPhrase |-> "none", wallets |-> <<>>]
\* no localStorage entry for a seed phrase
NotCached == -1

\* store initialState and WalletGenerator useState: no wallet set, nothing
\* selected, nothing archived; includes() is all that reads archivedWallets,
\* so it is kept as a set; adds counts the handleAddMoreWallets calls made
wgIdle ==
  wg = [walletSet |-> NoWalletSet, selectedWallets |-> <<>>,
        archivedWallets |-> {}, cached |-> [s \in Seeds |-> NotCached],
        tasks |-> <<>>, adds |-> 0]

\* loadWalletFromCache returns null
NullCached == [seedPhrase |-> <<>>, walletCount |-> 0]

\* localStorage without wallet entries; saved lists the seed phrases that
\* saveWalletToCache was called with, loaded the result of the last load
walletCacheIdle ==
  walletCache = [storage |-> {}, cacheKeys |-> <<>>, saved |-> {},
                 loaded |-> NullCached]

\* the browser's own fetch, and the unassigned let originalFetch
NativeFetch == [fn |-> "fetch", n |-> 0]
Unassigned == [fn |-> "undefined", n |-> 0]

\* let isPatched = false; let originalFetch; calls lists the calls made
fetchPatchIdle ==
  fetchPatch = [isPatched |-> FALSE, originalFetch |-> Unassigned,
                windowFetch |-> NativeFetch, created |-> 0, calls |-> <<>>]

\* the wallet list, the wallet cache and the fetch interceptor before use
uiIdle == wgIdle /\ walletCacheIdle /\ fetchPatchIdle

LibIdle ==
  /\ fwrIdle /\ gbIdle /\ spFormIdle /\ routeIdle /\ sessionIdle /\ keyStoreIdle
  /\ uiIdle

Init ==
  /\ selectedWallets = [k \in 1..NumWallets |-> k - 1]
  /\ amountPerWallet = DefaultAmount
  /\ fundingStatus = "idle"
  /\ fundingTasks = <<>>
  /\ storeShielded = 0
  /\ isShielding = FALSE
  /\ progress = 0
  /\ abortRef = FALSE
  /\ isPaused = FALSE
  /\ shieldedBalance = 0
  /\ publicBalance = 0
  /\ refreshing = TRUE
  /\ credential \in BOOLEAN
  /\ pool \in InitialPool
  /\ chainPublic \in InitialPublic
  /\ run = [r \in Runs |-> NewRun]
  /\ spPc = "idle"
  /\ spInitialized = credential
  /\ spMode = "shield"
  /\ spAmount = 0
  /\ spCount = 0
  /\ LibIdle


\* ------------------------------------------------- segments of handleFund
buttonRendered == ~isProcessing /\ ~isComplete

Pending(r) == run[r].pc = "new" /\ \A q \in Runs : q < r => run[q].pc # "new"

\* catch (error) { setFundingStatus('error') } finally { ... }
Catch(r, rec) ==
  /\ fundingStatus' = "error"
  /\ fundingTasks' = fundingTasks
  /\ isShielding' = FALSE
  /\ isPaused' = FALSE
  /\ refreshing' = TRUE
  /\ run' = [run EXCEPT ![r] = [rec EXCEPT !.pc = "done", !.endStatus = fundingStatus']]

\* the top of `for (const task of tasks)` at position k, then either the
\* withdraw call of task k or the end of the run
Iterate(r, rec, tasks, k, statusNow, shieldNow, pausedNow, abortNow) ==
  IF k > Len(rec.sel) \/ abortNow
    THEN /\ fundingStatus' = "complete"
         /\ fundingTasks' = tasks
         /\ isShielding' = FALSE
         /\ isPaused' = FALSE
         /\ refreshing' = TRUE
         /\ run' = [run EXCEPT ![r] =
                      [rec EXCEPT !.pc = "done", !.i = k, !.endStatus = fundingStatus']]
    ELSE /\ fundingStatus' = statusNow
         /\ fundingTasks' = updateFundingTask(tasks, rec.sel[k], [status |-> "processing"])
         /\ isShielding' = shieldNow
         /\ isPaused' = pausedNow
         /\ refreshing' = refreshing
         /\ run' = [run EXCEPT ![r] =
                      [rec EXCEPT !.pc = "withdraw", !.i = k,
                                  !.wlog = Append(@, [to |-> rec.sel[k], res |-> "pending"])]]

\* setIsShielding(false); setFundingStatus('distributing'); setFundingTasks(tasks)
StartDistributing(r, rec, pausedNow, abortNow) ==
  Iterate(r, [rec EXCEPT !.tasksCreated = TRUE], MakeTasks(rec.sel, rec.amount), 1,
          "distributing", FALSE, pausedNow, abortNow)

\* after ensureInitialized returned true: lines 214-222
Proceed(r, rec, pausedNow) ==
  /\ progress' = 0
  /\ abortRef' = FALSE
  /\ IF rec.needs
       THEN /\ fundingStatus' = fundingStatus
            /\ fundingTasks' = fundingTasks
            /\ isShielding' = TRUE
            /\ isPaused' = pausedNow
            /\ refreshing' = refreshing
            /\ run' = [run EXCEPT ![r] =
                         IF rec.fee > 0 \/ rec.toShield > 0
                           THEN [rec EXCEPT !.pc = "blockhash"]
                           ELSE [rec EXCEPT !.pc = "deposit", !.depositResult = "pending",
                                            !.depositCalls = @ + 1]]
       ELSE StartDistributing(r, rec, pausedNow, FALSE)

Captured(r) ==
  [run[r] EXCEPT
     !.sel = selectedWallets,
     !.amount = amountPerWallet,
     !.needs = needsShielding(shieldedBalance,
                              totalWithFees(amountPerWallet, Len(selectedWallets))),
     !.toShield = amountToShield(shieldedBalance,
                                 totalWithFees(amountPerWallet, Len(selectedWallets))),
     !.fee = protocolFee(amountToShield(shieldedBalance,
                                 totalWithFees(amountPerWallet, Len(selectedWallets)))),
     !.startShielded = shieldedBalance]

\* the Fund button's handler, up to its first await.  The button is
\* disabled while !canFund; the handler's own guard (line 204) is modelled
\* by letting it be invoked then too.  Without a stored credential the
\* handler awaits the message signature, unless no wallet is connected.
handleFund(r) ==
  /\ UNCHANGED <<spVars, libVars>>
  /\ Pending(r)
  /\ buttonRendered
  /\ UNCHANGED <<selectedWallets, amountPerWallet, storeShielded, shieldedBalance,
                 publicBalance, credential, pool, chainPublic>>
  /\ IF ~canFund(Len(selectedWallets), amountPerWallet, shieldedBalance, publicBalance)
       THEN /\ run' = [run EXCEPT ![r] = [Captured(r) EXCEPT !.pc = "rejected"]]
            /\ UNCHANGED <<fundingStatus, fundingTasks, isShielding, progress,
                           abortRef, isPaused, refreshing>>
       ELSE IF credential
         THEN Proceed(r, Captured(r), TRUE)
         ELSE \E walletPresent \in BOOLEAN :
                /\ UNCHANGED <<fundingStatus, fundingTasks, isShielding, progress,
                               abortRef, refreshing>>
                /\ IF walletPresent
                     THEN /\ isPaused' = TRUE
                          /\ run' = [run EXCEPT ![r] =
                                [Captured(r) EXCEPT !.pc = "signing", !.signAsked = TRUE]]
                     ELSE /\ isPaused' = FALSE
                          /\ run' = [run EXCEPT ![r] =
                                [Captured(r) EXCEPT !.pc = "initFailed"]]

\* ensureInitialized: the message signature arrives; storeEncryptionKey
SignMessageResolved(r) ==
  /\ UNCHANGED <<spVars, libVars>>
  /\ run[r].pc = "signing"
  /\ credential' = TRUE
  /\ UNCHANGED <<selectedWallets, amountPerWallet, storeShielded, shieldedBalance,
                 publicBalance, pool, chainPublic>>
  /\ Proceed(r, run[r], isPaused)

\* variant of SignMessageRejected: the failure is also written to the store
SignMessageRejected_setsError(r) ==
  /\ UNCHANGED <<spVars, libVars>>
  /\ run[r].pc = "signing"
  /\ isPaused' = FALSE
  /\ fundingStatus' = "error"
  /\ run' = [run EXCEPT ![r].pc = "initFailed"]
  /\ UNCHANGED <<selectedWallets, amountPerWallet, fundingTasks, storeShielded,
                 isShielding, progress, abortRef, shieldedBalance, publicBalance,
                 refreshing, credential, pool, chainPublic>>

\* ensureInitialized: signing throws; handleFund resumes polling and returns
SignMessageRejected(r) ==
  /\ UNCHANGED <<spVars, libVars>>
  /\ run[r].pc = "signing"
  /\ isPaused' = FALSE
  /\ run' = [run EXCEPT ![r].pc = "initFailed"]
  /\ UNCHANGED <<selectedWallets, amountPerWallet, fundingStatus, fundingTasks,
                 storeShielded, isShielding, progress, abortRef, shieldedBalance,
                 publicBalance, refreshing, credential, pool, chainPublic>>

FeePcs == {"blockhash", "feeSign", "feeSend"}
NextFeePc(pc) ==
  CASE pc = "blockhash" -> "feeSign"
    [] pc = "feeSign" -> "feeSend"
    [] pc = "feeSend" -> "feeConfirm"

\* getLatestBlockhash, the fee transaction's signature, sendRawTransaction
FeeStepResolved(r) ==
  /\ UNCHANGED <<spVars, libVars>>
  /\ run[r].pc \in FeePcs
  /\ run' = [run EXCEPT ![r].pc = NextFeePc(@),
                         ![r].feeSends = IF run[r].pc = "feeSign" THEN @ + 1 ELSE @]
  /\ UNCHANGED <<selectedWallets, amountPerWallet, fundingStatus, fundingTasks,
                 storeShielded, isShielding, progress, abortRef, isPaused,
                 shieldedBalance, publicBalance, refreshing, credential, pool,
                 chainPublic>>

FeeStepThrows(r) ==
  /\ UNCHANGED <<spVars, libVars>>
  /\ run[r].pc \in FeePcs \cup {"feeConfirm"}
  /\ Catch(r, [run[r] EXCEPT !.feeResult = "threw"])
  /\ UNCHANGED <<selectedWallets, amountPerWallet, storeShielded, progress, abortRef,
                 shieldedBalance, publicBalance, credential, pool, chainPublic>>

\* what handleFund does once confirmTransaction has resolved with `result`
\* ("ok": value.err is null, "err": value.err is set): the result is dropped
AfterConfirm(rec, result) ==
  [rec EXCEPT !.pc = "deposit", !.depositResult = "pending", !.depositCalls = @ + 1,
              !.feeResult = IF result = "ok" THEN "confirmed" ELSE "failedOnChain"]

\* confirmTransaction resolves; deposit is called
FeeConfirmResolved(r) ==
  /\ UNCHANGED <<spVars, libVars>>
  /\ run[r].pc = "feeConfirm"
  /\ \E result \in {"ok", "err"} :
       /\ result = "ok" => chainPublic >= run[r].fee
       /\ chainPublic' = IF result = "ok" THEN chainPublic - run[r].fee ELSE chainPublic
       /\ run' = [run EXCEPT ![r] = AfterConfirm(run[r], result)]
  /\ UNCHANGED <<selectedWallets, amountPerWallet, fundingStatus, fundingTasks,
                 storeShielded, isShielding, progress, abortRef, isPaused,
                 shieldedBalance, publicBalance, refreshing, credential, pool>>

\* variant of WithdrawThrows: the failed withdraw is issued again
WithdrawThrows_retries(r) ==
  /\ UNCHANGED <<spVars, libVars>>
  /\ run[r].pc = "withdraw"
  /\ run' = [run EXCEPT ![r].wlog =
               Append([@ EXCEPT ![Len(@)].res = "throw"],
                      [to |-> run[r].sel[run[r].i], res |-> "pending"])]
  /\ UNCHANGED <<selectedWallets, amountPerWallet, fundingStatus, fundingTasks,
                 storeShielded, isShielding, progress, abortRef, isPaused,
                 shieldedBalance, publicBalance, refreshing, credential, pool,
                 chainPublic>>

\* variant of DepositThrows: the exception of client.deposit is swallowed
\* and the run goes on to the distribution
DepositThrows_swallowed(r) ==
  /\ UNCHANGED <<spVars, libVars>>
  /\ run[r].pc = "deposit"
  /\ StartDistributing(r, [run[r] EXCEPT !.depositResult = "threw"], isPaused, abortRef)
  /\ UNCHANGED <<selectedWallets, amountPerWallet, storeShielded, progress, abortRef,
                 shieldedBalance, publicBalance, credential, pool, chainPublic>>

\* client.deposit returns; getBalance is called
DepositResolved(r) ==
  /\ UNCHANGED <<spVars, libVars>>
  /\ run[r].pc = "deposit"
  /\ chainPublic >= run[r].toShield + DEPOSIT_MARGIN
  /\ chainPublic' = chainPublic - run[r].toShield
  /\ pool' = pool + run[r].toShield
  /\ run' = [run EXCEPT ![r].pc = "balanceAfterDeposit", ![r].depositResult = "ok"]
  /\ UNCHANGED <<selectedWallets, amountPerWallet, fundingStatus, fundingTasks,
                 storeShielded, isShielding, progress, abortRef, isPaused,
                 shieldedBalance, publicBalance, refreshing, credential>>

DepositThrows(r) ==
  /\ UNCHANGED <<spVars, libVars>>
  /\ run[r].pc = "deposit"
  /\ Catch(r, [run[r] EXCEPT !.depositResult = "threw"])
  /\ UNCHANGED <<selectedWallets, amountPerWallet, storeShielded, progress, abortRef,
                 shieldedBalance, publicBalance, credential, pool, chainPublic>>

\* PrivacyCashClient.getBalance does not throw once the SDK is loaded (a
\* deposit or withdraw of the same client loaded it); it reads the pool
BalanceReadings == {pool}

BalanceAfterDeposit(r) ==
  /\ UNCHANGED <<spVars, libVars>>
  /\ run[r].pc = "balanceAfterDeposit"
  /\ \E b \in BalanceReadings : storeShielded' = b
  /\ run' = [run EXCEPT ![r].pc = "settle"]
  /\ UNCHANGED <<selectedWallets, amountPerWallet, fundingStatus, fundingTasks,
                 isShielding, progress, abortRef, isPaused, shieldedBalance,
                 publicBalance, refreshing, credential, pool, chainPublic>>

\* the 1 s pause after shielding ends; distribution starts
SettleDone(r) ==
  /\ UNCHANGED <<spVars, libVars>>
  /\ run[r].pc = "settle"
  /\ StartDistributing(r, run[r], isPaused, abortRef)
  /\ UNCHANGED <<selectedWallets, amountPerWallet, storeShielded, progress, abortRef,
                 shieldedBalance, publicBalance, credential, pool, chainPublic>>

PercentDone(completed, total) == (completed * 100) \div total

\* client.withdraw returns a signature
WithdrawResolved(r) ==
  /\ UNCHANGED <<spVars, libVars>>
  /\ run[r].pc = "withdraw"
  /\ LET rec == run[r]
         k == rec.i
         amt == withdrawAmountPerWallet(rec.amount)
     IN /\ pool >= amt
        /\ pool' = pool - amt
        /\ fundingTasks' = updateFundingTask(fundingTasks, rec.sel[k],
                              [status |-> "success", signature |-> <<r, k>>])
        /\ progress' = PercentDone(rec.completed + 1, Len(rec.sel))
        /\ run' = [run EXCEPT ![r] =
                     [rec EXCEPT !.pc = "balanceAfterWithdraw",
                                 !.completed = @ + 1,
                                 !.wlog[Len(rec.wlog)].res = "ok"]]
  /\ UNCHANGED <<selectedWallets, amountPerWallet, fundingStatus, storeShielded,
                 isShielding, abortRef, isPaused, shieldedBalance, publicBalance,
                 refreshing, credential, chainPublic>>

\* client.withdraw throws
WithdrawThrows(r) ==
  /\ UNCHANGED <<spVars, libVars>>
  /\ run[r].pc = "withdraw"
  /\ LET rec == run[r]
         k == rec.i
     IN /\ fundingTasks' = updateFundingTask(fundingTasks, rec.sel[k],
                              [status |-> "error", error |-> "failed"])
        /\ run' = [run EXCEPT ![r] =
                     [rec EXCEPT !.pc = "delay", !.wlog[Len(rec.wlog)].res = "throw"]]
  /\ UNCHANGED <<selectedWallets, amountPerWallet, fundingStatus, storeShielded,
                 isShielding, progress, abortRef, isPaused, shieldedBalance,
                 publicBalance, refreshing, credential, pool, chainPublic>>

BalanceAfterWithdraw(r) ==
  /\ UNCHANGED <<spVars, libVars>>
  /\ run[r].pc = "balanceAfterWithdraw"
  /\ \E b \in BalanceReadings : storeShielded' = b
  /\ run' = [run EXCEPT ![r].pc = "delay"]
  /\ UNCHANGED <<selectedWallets, amountPerWallet, fundingStatus, fundingTasks,
                 isShielding, progress, abortRef, isPaused, shieldedBalance,
                 publicBalance, refreshing, credential, pool, chainPublic>>

\* the 300 ms pause ends; the loop moves to the next task or the run ends
DelayDone(r) ==
  /\ UNCHANGED <<spVars, libVars>>
  /\ run[r].pc = "delay"
  /\ Iterate(r, run[r], fundingTasks, run[r].i + 1, fundingStatus, isShielding,
             isPaused, abortRef)
  /\ UNCHANGED <<selectedWallets, amountPerWallet, storeShielded, progress, abortRef,
                 shieldedBalance, publicBalance, credential, pool, chainPublic>>

\* ------------------------------------------------------ other handlers
resetFunding ==
  /\ UNCHANGED <<spVars, libVars>>
  /\ isComplete
  /\ fundingTasks' = <<>>
  /\ fundingStatus' = "idle"
  /\ progress' = 0
  /\ abortRef' = FALSE
  /\ UNCHANGED <<selectedWallets, amountPerWallet, storeShielded, isShielding,
                 isPaused, shieldedBalance, publicBalance, refreshing, credential,
                 pool, chainPublic, run>>

\* selectedWallets and amountPerWallet are read by handleFund alone: once
\* every modelled invocation has started, changing them changes nothing
InvocationsLeft == \E r \in Runs : run[r].pc = "new"

ToggleWallet(index) ==
  /\ UNCHANGED <<spVars, libVars>>
  /\ InvocationsLeft
  /\ selectedWallets' = toggleWallet(selectedWallets, index)
  /\ UNCHANGED <<amountPerWallet, fundingStatus, fundingTasks, storeShielded,
                 isShielding, progress, abortRef, isPaused, shieldedBalance,
                 publicBalance, refreshing, credential, pool, chainPublic, run>>

\* the amount input is part of the form, shown with the Fund button
SetAmountPerWallet(a) ==
  /\ UNCHANGED <<spVars, libVars>>
  /\ InvocationsLeft
  /\ buttonRendered
  /\ a # amountPerWallet
  /\ amountPerWallet' = a
  /\ UNCHANGED <<selectedWallets, fundingStatus, fundingTasks, storeShielded,
                 isShielding, progress, abortRef, isPaused, shieldedBalance,
                 publicBalance, refreshing, credential, pool, chainPublic, run>>

\* the polling interval fires (it is cleared while isPaused)
PollTick ==
  /\ UNCHANGED <<spVars, libVars>>
  /\ ~isPaused
  /\ ~refreshing
  /\ refreshing' = TRUE
  /\ UNCHANGED <<selectedWallets, amountPerWallet, fundingStatus, fundingTasks,
                 storeShielded, isShielding, progress, abortRef, isPaused,
                 shieldedBalance, publicBalance, credential, pool, chainPublic, run>>

\* refreshBalances and refreshShieldedBalance deliver their readings
RefreshResolved ==
  /\ UNCHANGED <<spVars, libVars>>
  /\ refreshing
  /\ refreshing' = FALSE
  /\ publicBalance' = chainPublic
  /\ \E b \in (IF credential THEN BalanceReadings ELSE {0}) :
       /\ shieldedBalance' = b
       /\ storeShielded' = b
  /\ UNCHANGED <<selectedWallets, amountPerWallet, fundingStatus, fundingTasks,
                 isShielding, progress, abortRef, isPaused, credential, pool,
                 chainPublic, run>>

\* ------------------------------------------------- ShieldPanel.handleAction
fundingVars == <<selectedWallets, amountPerWallet, fundingStatus, fundingTasks,
                 storeShielded, isShielding, progress, abortRef, run>>

\* totalCost <= availableBalance, from the panel's last render
\* the least integer >= num / den
ceilDiv(num, den) == (num + den - 1) \div den

\* totalCost <= availableBalance: a fee with a fraction of a lamport passes
\* only if the next whole lamport does
costWithin(mode, amountNum, available) ==
  IF mode = "shield"
    THEN amountNum + ceilDiv(amountNum * PROTOCOL_FEE_PER_MILLE, 1000) <= available
    ELSE amountNum + ceilDiv(amountNum * WITHDRAWAL_FEE_PER_10K, 10000)
           + WITHDRAWAL_RENT <= available

availableBalance(mode) == IF mode = "shield" THEN publicBalance ELSE shieldedBalance

canExecute(mode, amountNum) ==
  /\ amountNum > 0
  /\ costWithin(mode, amountNum, availableBalance(mode))

\* pausePolling(); setProcessing(true); then the first await of the mode
ShieldStart(mode) ==
  /\ isPaused' = TRUE
  /\ spPc' = IF mode = "shield" THEN "fee" ELSE "service"

\* the Shield/Unshield button (disabled while processing or initializing)
handleAction(mode, amountNum) ==
  /\ spPc = "idle"
  /\ spCount < MaxShieldActions
  /\ canExecute(mode, amountNum)
  /\ spMode' = mode
  /\ spAmount' = amountNum
  /\ spCount' = spCount + 1
  /\ IF ~spInitialized
       THEN /\ spPc' = "initializing"
            /\ UNCHANGED isPaused
       ELSE ShieldStart(mode)
  /\ UNCHANGED <<spInitialized, shieldedBalance, publicBalance, refreshing,
                 credential, pool, chainPublic>>
  /\ UNCHANGED <<fundingVars, libVars>>

\* initializePrivacyCash: the signature arrives; the action goes on
ShieldSignResolved ==
  /\ spPc = "initializing"
  /\ credential' = TRUE
  /\ spInitialized' = TRUE
  /\ refreshing' = TRUE
  /\ ShieldStart(spMode)
  /\ UNCHANGED <<spMode, spAmount, spCount, shieldedBalance, publicBalance, pool,
                 chainPublic>>
  /\ UNCHANGED <<fundingVars, libVars>>

\* initializePrivacyCash: signing throws; handleAction returns
ShieldSignRejected ==
  /\ spPc = "initializing"
  /\ spPc' = "idle"
  /\ UNCHANGED <<spInitialized, spMode, spAmount, spCount, isPaused, shieldedBalance,
                 publicBalance, refreshing, credential, pool, chainPublic>>
  /\ UNCHANGED <<fundingVars, libVars>>

\* finally { setProcessing(false); resumePolling(); refreshAllBalances() }
ShieldFinally ==
  /\ spPc' = "idle"
  /\ isPaused' = FALSE
  /\ refreshing' = TRUE
  /\ UNCHANGED <<spInitialized, spMode, spAmount, spCount, shieldedBalance,
                 publicBalance, credential>>
  /\ UNCHANGED <<fundingVars, libVars>>

\* the protocol-fee transfer of shield mode: getLatestBlockhash, the
\* signature, sendRawTransaction and confirmTransaction write no state in
\* between, so they are one step; then deposit is called
ShieldFeeResolved ==
  /\ spPc = "fee"
  /\ chainPublic >= protocolFee(spAmount)
  /\ chainPublic' = chainPublic - protocolFee(spAmount)
  /\ spPc' = "service"
  /\ UNCHANGED <<spInitialized, spMode, spAmount, spCount, isPaused, shieldedBalance,
                 publicBalance, refreshing, credential, pool>>
  /\ UNCHANGED <<fundingVars, libVars>>

\* what the recipient of a withdraw of `gross` lamports receives
recipientReceives(gross) ==
  gross - (gross * WITHDRAWAL_FEE_PER_10K) \div 10000 - WITHDRAWAL_RENT

\* client.deposit / client.withdraw of the panel returns
ShieldServiceResolved ==
  /\ spPc = "service"
  /\ IF spMode = "shield"
       THEN /\ chainPublic >= spAmount + DEPOSIT_MARGIN
            /\ chainPublic' = chainPublic - spAmount
            /\ pool' = pool + spAmount
       ELSE /\ pool >= spAmount
            /\ pool' = pool - spAmount
            /\ chainPublic' = chainPublic + recipientReceives(spAmount)
  /\ ShieldFinally

\* any await of the try block throws
ShieldThrows ==
  /\ spPc \in {"fee", "service"}
  /\ UNCHANGED <<pool, chainPublic>>
  /\ ShieldFinally

ShieldNext ==
  \/ \E mode \in Modes, a \in ShieldAmounts : handleAction(mode, a)
  \/ ShieldSignResolved
  \/ ShieldSignRejected
  \/ ShieldFeeResolved
  \/ ShieldServiceResolved
  \/ ShieldThrows

\* every step of the orchestrator and the balance context but the press of Fund
FundingSteps ==
  \/ \E r \in Runs : SignMessageResolved(r)
  \/ \E r \in Runs : SignMessageRejected(r)
  \/ \E r \in Runs : FeeStepResolved(r)
  \/ \E r \in Runs : FeeStepThrows(r)
  \/ \E r \in Runs : FeeConfirmResolved(r)
  \/ \E r \in Runs : DepositResolved(r)
  \/ \E r \in Runs : DepositThrows(r)
  \/ \E r \in Runs : BalanceAfterDeposit(r)
  \/ \E r \in Runs : SettleDone(r)
  \/ \E r \in Runs : WithdrawResolved(r)
  \/ \E r \in Runs : WithdrawThrows(r)
  \/ \E r \in Runs : BalanceAfterWithdraw(r)
  \/ \E r \in Runs : DelayDone(r)
  \/ resetFunding
  \/ \E index \in Wallets : ToggleWallet(index)
  \/ \E a \in AmountChoices : SetAmountPerWallet(a)
  \/ PollTick
  \/ RefreshResolved

Next ==
  \/ \E r \in Runs : handleFund(r)
  \/ FundingSteps

\* the funding orchestrator with the balance context
Spec == Init /\ [][Next]_vars

\* no invocation of handleFund is between its first await and its return
NoRunInProgress ==
  \A q \in Runs : run[q].pc \in {"new", "rejected", "initFailed", "done"}

\* the orchestrator next to the ShieldPanel, for a user who never presses
\* Fund during a run
PanelsNext ==
  \/ \E r \in Runs : NoRunInProgress /\ handleFund(r)
  \/ FundingSteps
  \/ ShieldNext

SpecPanels == Init /\ [][PanelsNext]_vars

\* ------------------------------------------------------ fee round trip
\* per-wallet amounts of 0.001 .. MaxMilliSol/1000 SOL
FeeAmounts == {k * (LAMPORTS_PER_SOL \div 1000) : k \in 1..MaxMilliSol}
\* the selections [0], [0,1], ... of every recipient count
FeeSelections == {[k \in 1..n |-> k - 1] : n \in 1..NumWallets}

\* a session whose shielded balance (1 SOL) covers every request
FeeInit ==
  /\ selectedWallets \in FeeSelections
  /\ amountPerWallet \in FeeAmounts
  /\ fundingStatus = "idle"
  /\ fundingTasks = <<>>
  /\ storeShielded = LAMPORTS_PER_SOL
  /\ isShielding = FALSE
  /\ progress = 0
  /\ abortRef = FALSE
  /\ isPaused = FALSE
  /\ shieldedBalance = LAMPORTS_PER_SOL
  /\ publicBalance = 0
  /\ refreshing = FALSE
  /\ credential = TRUE
  /\ pool = LAMPORTS_PER_SOL
  /\ chainPublic = 0
  /\ run = [r \in Runs |-> NewRun]
  /\ spPc = "idle"
  /\ spInitialized = TRUE
  /\ spMode = "shield"
  /\ spAmount = 0
  /\ spCount = 0
  /\ LibIdle

\* one distribution after the other, every withdraw returning
FeeNext ==
  \/ \E r \in Runs : NoRunInProgress /\ handleFund(r)
  \/ \E r \in Runs : WithdrawResolved(r)
  \/ \E r \in Runs : BalanceAfterWithdraw(r)
  \/ \E r \in Runs : DelayDone(r)
  \/ resetFunding

FeeSpec == FeeInit /\ [][FeeNext]_vars

\* ------------------------------------------- shielding from a tight balance
\* what the public balance holds beyond amountToShield + protocolFee
MarginSlacks == {0, DEPOSIT_MARGIN - 1, DEPOSIT_MARGIN}

\* an initialized account with an empty pool whose public balance just
\* passes canFund; nothing else spends from it
TightInit ==
  /\ \E sel \in FeeSelections, a \in FeeAmounts, slack \in MarginSlacks :
       /\ selectedWallets = sel
       /\ amountPerWallet = a
       /\ publicBalance = totalFromPublic(totalWithFees(a, Len(sel))) + slack
       /\ chainPublic = publicBalance
  /\ fundingStatus = "idle"
  /\ fundingTasks = <<>>
  /\ storeShielded = 0
  /\ isShielding = FALSE
  /\ progress = 0
  /\ abortRef = FALSE
  /\ isPaused = FALSE
  /\ shieldedBalance = 0
  /\ refreshing = FALSE
  /\ credential = TRUE
  /\ pool = 0
  /\ run = [r \in Runs |-> NewRun]
  /\ spPc = "idle"
  /\ spInitialized = TRUE
  /\ spMode = "shield"
  /\ spAmount = 0
  /\ spCount = 0
  /\ LibIdle

\* one run: the fee transfer, the deposit, the distribution
TightNext ==
  \/ \E r \in Runs : NoRunInProgress /\ handleFund(r)
  \/ \E r \in Runs : FeeStepResolved(r)
  \/ \E r \in Runs : FeeConfirmResolved(r)
  \/ \E r \in Runs : DepositResolved(r)
  \/ \E r \in Runs : DepositThrows(r)
  \/ \E r \in Runs : BalanceAfterDeposit(r)
  \/ \E r \in Runs : SettleDone(r)
  \/ \E r \in Runs : WithdrawResolved(r)
  \/ \E r \in Runs : BalanceAfterWithdraw(r)
  \/ \E r \in Runs : DelayDone(r)

TightSpec == TightInit /\ [][TightNext]_vars

\* the panels at rest: nothing selected to do, no run, no action in progress
QuiescentAt(p, shielded, public) ==
  /\ selectedWallets = <<>>
  /\ amountPerWallet = DefaultAmount
  /\ fundingStatus = "idle"
  /\ fundingTasks = <<>>
  /\ storeShielded = 0
  /\ isShielding = FALSE
  /\ progress = 0
  /\ abortRef = FALSE
  /\ isPaused = FALSE
  /\ shieldedBalance = shielded
  /\ publicBalance = public
  /\ refreshing = FALSE
  /\ credential = FALSE
  /\ pool = p
  /\ chainPublic = 0
  /\ run = [r \in Runs |-> NewRun]
  /\ spPc = "idle"
  /\ spInitialized = FALSE
  /\ spMode = "shield"
  /\ spAmount = 0
  /\ spCount = 0

Quiescent == QuiescentAt(0, 0, 0)

\* ------------------------------------------------- proxy: fetchWithRetry
\* maxRetries and baseDelayMs as GET and POST pass them
RetryLimits == {3, 5}
BaseDelays == {2000, 3000}
\* the fetch threw (network error, abort by the timeout signal)
Threw == 0
UpstreamStatuses == {200, 404, 500, 502, 503, 504}

\* variant of isRetryStatus: every 5xx response is retried
isRetryStatus_any5xx(status) == status >= 500

\* response.status >= 502 && response.status <= 504
isRetryStatus(status) == status >= 502 /\ status <= 504

fwrFrame == <<mainVars, gb, spForm, route, session, keyStore, wg, walletCache,
  fetchPatch>>

\* the call enters the loop and issues the first fetch
fetchWithRetry(maxRetries, baseDelayMs) ==
  /\ fwr.pc = "idle"
  /\ fwr' = [fwr EXCEPT !.pc = "fetch", !.maxRetries = maxRetries,
                        !.baseDelayMs = baseDelayMs, !.attempt = 0,
                        !.requests = 1]
  /\ UNCHANGED fwrFrame

\* await fetch(url, options) resolves with a response
FetchResolved(status) ==
  /\ fwr.pc = "fetch"
  /\ IF isRetryStatus(status) /\ fwr.attempt < fwr.maxRetries - 1
     THEN fwr' = [fwr EXCEPT !.pc = "wait",
                    !.outcomes = Append(@, status),
                    !.waits = Append(@, fwr.baseDelayMs * 2 ^ fwr.attempt)]
     ELSE fwr' = [fwr EXCEPT !.pc = "returned",
                    !.outcomes = Append(@, status),
                    !.result = status]
  /\ UNCHANGED fwrFrame

\* await fetch(url, options) rejects; errors are told apart by the attempt
\* that raised them
FetchThrows ==
  /\ fwr.pc = "fetch"
  /\ IF fwr.attempt < fwr.maxRetries - 1
     THEN fwr' = [fwr EXCEPT !.pc = "wait",
                    !.outcomes = Append(@, Threw),
                    !.lastError = fwr.attempt + 1,
                    !.waits = Append(@, fwr.baseDelayMs * 2 ^ fwr.attempt)]
     ELSE fwr' = [fwr EXCEPT !.pc = "thrown",
                    !.outcomes = Append(@, Threw),
                    !.lastError = fwr.attempt + 1,
                    !.attempt = @ + 1,
                    !.result = fwr.attempt + 1]
  /\ UNCHANGED fwrFrame

\* the backoff timer fires: attempt++ and the next fetch
BackoffDone ==
  /\ fwr.pc = "wait"
  /\ fwr.attempt + 1 < fwr.maxRetries
  /\ fwr' = [fwr EXCEPT !.pc = "fetch", !.attempt = @ + 1, !.requests = @ + 1]
  /\ UNCHANGED fwrFrame

RetryNext ==
  \/ \E m \in RetryLimits, d \in BaseDelays : fetchWithRetry(m, d)
  \/ \E status \in UpstreamStatuses : FetchResolved(status)
  \/ FetchThrows
  \/ BackoffDone

RetryInit == Quiescent /\ LibIdle

\* every fetch settles (the caller's abort signal ends a hanging one) and
\* every timer fires
RetrySpec == RetryInit /\ [][RetryNext]_vars /\ WF_vars(RetryNext)

\* ------------------------------------------- PrivacyCashClient.getBalance
gbFrame == <<mainVars, fwr, spForm, route, session, keyStore, wg, walletCache,
  fetchPatch>>

\* what a call handed to its caller: a value, or an exception; ioFailed
\* records that a request of the call failed
Returned(lamports, ioFailed) ==
  [threw |-> FALSE, lamports |-> lamports, ioFailed |-> ioFailed]
Thrown == [threw |-> TRUE, lamports |-> 0, ioFailed |-> TRUE]

\* getBalance() in a browser: await this.loadSDK()
getBalance ==
  /\ gb.pc = "idle"
  /\ Len(gb.calls) < MaxBalanceCalls
  /\ gb' = [gb EXCEPT !.pc = IF gb.sdkLoaded THEN "utxos" ELSE "loading"]
  /\ UNCHANGED gbFrame

\* the dynamic imports resolve; getUtxos is requested
LoadSDKResolved ==
  /\ gb.pc = "loading"
  /\ gb' = [gb EXCEPT !.pc = "utxos", !.sdkLoaded = TRUE]
  /\ UNCHANGED gbFrame

\* the imports fail: loadSDK throws, outside the try of getBalance
LoadSDKThrows ==
  /\ gb.pc = "loading"
  /\ gb' = [gb EXCEPT !.pc = "idle", !.calls = Append(@, Thrown)]
  /\ UNCHANGED gbFrame

\* getUtxos resolves: no UTXO gives 0, else the sum the SDK computes
GetUtxosResolved ==
  /\ gb.pc = "utxos"
  /\ gb' = [gb EXCEPT !.pc = "idle", !.calls = Append(@, Returned(pool, FALSE))]
  /\ UNCHANGED gbFrame

\* getUtxos rejects: catch (error) { return { lamports: 0, sol: 0 } }
GetUtxosThrows ==
  /\ gb.pc = "utxos"
  /\ gb' = [gb EXCEPT !.pc = "idle", !.calls = Append(@, Returned(0, TRUE))]
  /\ UNCHANGED gbFrame

BalanceNext ==
  \/ getBalance
  \/ LoadSDKResolved
  \/ LoadSDKThrows
  \/ GetUtxosResolved
  \/ GetUtxosThrows

\* an account holding 0 .. MaxMilliSol/1000 SOL in the pool; no deposit and
\* no withdraw happens
BalanceInit == (\E p \in FeeAmounts \cup {0} : QuiescentAt(p, 0, 0)) /\ LibIdle

BalanceSpec == BalanceInit /\ [][BalanceNext]_vars
\* ------------------------------------------------ ShieldPanel: Max button
LAMPORTS_PER_MICRO == LAMPORTS_PER_SOL \div 1000000

\* the nearest integer to num / den, the larger one of two: toFixed
roundHalfUp(num, den) == (2 * num + den) \div (2 * den)

\* Math.max(0, maxAmount).toFixed(6), as a count of micro-SOL:
\* shield balance / 1.005, unshield (balance - 0.006) / 1.0035
maxAmountMicro(mode, available) ==
  IF mode = "shield"
    THEN roundHalfUp(available, LAMPORTS_PER_MICRO + PROTOCOL_FEE_PER_MILLE)
  ELSE IF available <= WITHDRAWAL_RENT THEN 0
  ELSE roundHalfUp(10 * (available - WITHDRAWAL_RENT),
                   10 * LAMPORTS_PER_MICRO + WITHDRAWAL_FEE_PER_10K)

\* amountNum = parseFloat(amount) || 0, in lamports
formAmountNum == spForm.amount * LAMPORTS_PER_MICRO

spFormFrame == <<mainVars, fwr, gb, route, session, keyStore, wg, walletCache,
  fetchPatch>>

\* onClick={() => setMode(...)}: the amount typed stays
SetMode(mode) ==
  /\ spForm.mode # mode
  /\ spForm' = [spForm EXCEPT !.mode = mode, !.fromMax = FALSE]
  /\ UNCHANGED spFormFrame

\* the Max button
MaxClicked ==
  /\ spForm' = [spForm EXCEPT
                  !.amount = maxAmountMicro(spForm.mode, availableBalance(spForm.mode)),
                  !.fromMax = TRUE]
  /\ UNCHANGED spFormFrame

MaxNext ==
  \/ \E mode \in Modes : SetMode(mode)
  \/ MaxClicked

\* balances of 0 .. MaxFillMilliSol/1000 SOL
MaxBalances == {k * (LAMPORTS_PER_SOL \div 1000) : k \in 0..MaxFillMilliSol}

MaxInit ==
  /\ \E shielded \in MaxBalances, public \in MaxBalances :
       QuiescentAt(shielded, shielded, public)
  /\ LibIdle

MaxSpec == MaxInit /\ [][MaxNext]_vars
\* ---------------------------------------- POST /api/privacy-cash/deposit
\* strings by length and content: only '1's, only '0's, anything else
SigLengths == {0, MIN_SIGNATURE_LENGTH - 1, MIN_SIGNATURE_LENGTH, 88}
SigStrings ==
  {[kind |-> "string", len |-> n, chars |-> c] :
     n \in SigLengths \ {0}, c \in {"ones", "zeros", "mixed"}}
    \cup {[kind |-> "string", len |-> 0, chars |-> "none"]}
\* what the relayer's JSON may hold in result.signature
RelayerSigs == SigStrings \cup {NullSig, NotAString}

\* variant of isValidSolanaSignature: the placeholder patterns are accepted
isValidSolanaSignature_lengthOnly(sig) ==
  /\ sig.kind = "string"
  /\ sig.len >= MIN_SIGNATURE_LENGTH

isValidSolanaSignature(sig) ==
  /\ ~(sig.kind = "null" \/ (sig.kind = "string" /\ sig.len = 0))
  /\ sig.kind = "string"
  /\ sig.len >= MIN_SIGNATURE_LENGTH
  /\ sig.chars # "ones"
  /\ sig.chars # "zeros"

routeFrame == <<mainVars, fwr, gb, spForm, session, keyStore, wg, walletCache,
  fetchPatch>>

Respond(status, success, sig, method) ==
  [status |-> status, success |-> success, signature |-> sig, method |-> method]

\* the outer catch: { error, success: false }, status 500
FatalError(rt) ==
  [rt EXCEPT !.pc = "responded",
             !.response = Respond(500, "false", NullSig, "none")]

\* the request arrives; missing fields are answered with 400
POST(fieldsPresent) ==
  /\ route.pc = "idle"
  /\ route' = IF fieldsPresent
                 THEN [route EXCEPT !.pc = "relayer"]
                 ELSE [route EXCEPT !.pc = "responded",
                                    !.response = Respond(400, "absent", NullSig, "none")]
  /\ UNCHANGED routeFrame

\* the relayer answers: ok with a valid signature ends the request
RelayerResolved(ok, sig) ==
  /\ route.pc = "relayer"
  /\ route' = IF ok /\ isValidSolanaSignature(sig)
                 THEN [route EXCEPT !.pc = "responded", !.relayer = "accepted",
                                    !.response = Respond(200, "true", sig, "relayer")]
                 ELSE [route EXCEPT !.pc = "getSlot",
                                    !.relayer = IF ok THEN "signature rejected"
                                                      ELSE "not ok"]
  /\ UNCHANGED routeFrame

\* the relayer fails or times out
RelayerThrows ==
  /\ route.pc = "relayer"
  /\ route' = [route EXCEPT !.pc = "getSlot", !.relayer = "threw"]
  /\ UNCHANGED routeFrame

\* getSlot resolves; the transaction deserializes or not
GetSlotResolved(deserializes) ==
  /\ route.pc = "getSlot"
  /\ route' = IF deserializes THEN [route EXCEPT !.pc = "blockhash"]
                              ELSE FatalError(route)
  /\ UNCHANGED routeFrame

GetSlotThrows ==
  /\ route.pc = "getSlot"
  /\ route' = FatalError(route)
  /\ UNCHANGED routeFrame

\* getLatestBlockhash resolves: attempt = 0, sendTransaction
BlockhashResolved ==
  /\ route.pc = "blockhash"
  /\ route' = [route EXCEPT !.pc = "send", !.attempt = 0, !.sends = @ + 1]
  /\ UNCHANGED routeFrame

BlockhashThrows ==
  /\ route.pc = "blockhash"
  /\ route' = FatalError(route)
  /\ UNCHANGED routeFrame

\* variant of retryDelay: the same wait before every retry
retryDelay_constant(attempt) == 2000

\* const delay = 2000 * (attempt + 1)
retryDelay(attempt) == 2000 * (attempt + 1)

\* the end of the catch of one attempt: signature = null, then the delay and
\* the next attempt, or the end of the loop and the throw of lastError
AttemptFailed(rt, why) ==
  IF rt.attempt < DIRECT_ATTEMPTS - 1
    THEN [rt EXCEPT !.pc = "delay", !.signature = NullSig, !.lastError = TRUE,
                    !.confirmErr = FALSE, !.failed = Append(@, why),
                    !.delays = Append(@, retryDelay(rt.attempt))]
    ELSE [FatalError(rt) EXCEPT !.signature = NullSig, !.lastError = TRUE,
                                !.confirmErr = FALSE, !.attempt = @ + 1,
                                !.failed = Append(@, why)]

\* what the attempt waiting for getSignatureStatus threw
ConfirmFailure(rt) == IF rt.confirmErr THEN "failed on-chain" ELSE "confirm threw"

\* sendTransaction resolves with a signature
SendResolved(sig) ==
  /\ route.pc = "send"
  /\ route' = IF isValidSolanaSignature(sig)
                 THEN [route EXCEPT !.pc = "confirm", !.signature = sig]
                 ELSE AttemptFailed(route, "invalid signature")
  /\ UNCHANGED routeFrame

\* sendTransaction rejects; signature is still null
SendThrows ==
  /\ route.pc = "send"
  /\ route' = AttemptFailed(route, "send threw")
  /\ UNCHANGED routeFrame

\* confirmTransaction resolves; value.err set makes the attempt throw, and
\* the catch asks for the status of the signature it holds
ConfirmResolved(err) ==
  /\ route.pc = "confirm"
  /\ route' = IF err
                 THEN [route EXCEPT !.pc = "status", !.lastError = TRUE,
                                    !.confirmErr = TRUE]
                 ELSE [route EXCEPT !.pc = "notify"]
  /\ UNCHANGED routeFrame

\* confirmTransaction rejects (timeout, expired blockhash)
ConfirmThrows ==
  /\ route.pc = "confirm"
  /\ route' = [route EXCEPT !.pc = "status", !.lastError = TRUE]
  /\ UNCHANGED routeFrame

\* getSignatureStatus resolves: a confirmationStatus ends the loop with the
\* signature kept
StatusResolved(hasConfirmationStatus) ==
  /\ route.pc = "status"
  /\ route' = IF hasConfirmationStatus
                 THEN [route EXCEPT !.pc = IF isValidSolanaSignature(route.signature)
                                             THEN "notify" ELSE "responded",
                                    !.response = IF isValidSolanaSignature(route.signature)
                                                   THEN @
                                                   ELSE Respond(500, "false", NullSig, "none")]
                 ELSE AttemptFailed(route, ConfirmFailure(route))
  /\ UNCHANGED routeFrame

StatusThrows ==
  /\ route.pc = "status"
  /\ route' = AttemptFailed(route, ConfirmFailure(route))
  /\ UNCHANGED routeFrame

\* the delay before the next attempt is over
RetryDelayDone ==
  /\ route.pc = "delay"
  /\ route' = [route EXCEPT !.pc = "send", !.attempt = @ + 1, !.sends = @ + 1]
  /\ UNCHANGED routeFrame

\* the indexer notification settles either way; the last check and the answer
NotifySettled ==
  /\ route.pc = "notify"
  /\ route' = IF isValidSolanaSignature(route.signature)
                 THEN [route EXCEPT !.pc = "responded",
                         !.response = Respond(200, "true", route.signature, "direct")]
                 ELSE [route EXCEPT !.pc = "responded",
                         !.response = Respond(500, "false", NullSig, "none")]
  /\ UNCHANGED routeFrame

RouteNext ==
  \/ \E fieldsPresent \in BOOLEAN : POST(fieldsPresent)
  \/ \E ok \in BOOLEAN, sig \in RelayerSigs : RelayerResolved(ok, sig)
  \/ RelayerThrows
  \/ \E deserializes \in BOOLEAN : GetSlotResolved(deserializes)
  \/ GetSlotThrows
  \/ BlockhashResolved
  \/ BlockhashThrows
  \/ \E sig \in SigStrings : SendResolved(sig)
  \/ SendThrows
  \/ \E err \in BOOLEAN : ConfirmResolved(err)
  \/ ConfirmThrows
  \/ \E has \in BOOLEAN : StatusResolved(has)
  \/ StatusThrows
  \/ RetryDelayDone
  \/ NotifySettled

RouteInit == Quiescent /\ LibIdle

RouteSpec == RouteInit /\ [][RouteNext]_vars

\* every step of the handler is the settling of the promise or timer it
\* awaits: the relayer fetch is aborted after 20 s, the RPC calls resolve or
\* reject, the delays are timers
RouteFairSpec == RouteInit /\ [][RouteNext]_vars /\ WF_vars(RouteNext)
\* ------------------------------------- clientRef caches and the address
sessionFrame == <<mainVars, fwr, gb, spForm, route, keyStore, wg, walletCache,
  fetchPatch>>

\* an operation issued on a client built for address client while the active
\* address is active
Op(by, op, client) ==
  [by |-> by, op |-> op, client |-> client, active |-> session.active]

\* if (clientRef.current) return clientRef.current; else a new client for
\* the address, cached
cachedOr(ref, address) == IF ref # NoClient THEN ref ELSE address

\* the active address changes: FundingPanel and the balance context drop
\* their clients, ShieldPanel only re-reads isInitialized
SwitchWallet(b) ==
  /\ b # session.active
  /\ session' = [session EXCEPT !.active = b,
                                !.fpClient = NoClient,
                                !.ctxClient = NoClient,
                                !.spIsInitialized = session.stored[b]]
  /\ UNCHANGED sessionFrame

\* FundingPanel: ensureInitialized, then getClient and a deposit or withdraw
FundingOp(op) ==
  /\ LET client == IF session.stored[session.active]
                     THEN cachedOr(session.fpClient, session.active)
                     ELSE session.active
     IN session' = [session EXCEPT !.stored[session.active] = TRUE,
                                   !.fpClient = client,
                                   !.ops = @ \cup {Op("FundingPanel", op, client)}]
  /\ UNCHANGED sessionFrame

\* ShieldPanel.handleAction: initializePrivacyCash unless isInitialized, then
\* getClientAsync and a deposit or withdraw
ShieldOp(op) ==
  /\ LET client == IF session.spIsInitialized
                     THEN cachedOr(session.spClient, session.active)
                     ELSE session.active
     IN session' = [session EXCEPT !.stored[session.active] = TRUE,
                                   !.spIsInitialized = TRUE,
                                   !.spClient = client,
                                   !.ops = @ \cup {Op("ShieldPanel", op, client)}]
  /\ UNCHANGED sessionFrame

\* the balance context: getPrivacyCashClient, then getBalance
PollerOp ==
  /\ session.stored[session.active]
  /\ LET client == cachedOr(session.ctxClient, session.active)
     IN session' = [session EXCEPT !.ctxClient = client,
                                   !.ops = @ \cup {Op("poller", "getBalance", client)}]
  /\ UNCHANGED sessionFrame

SessionNext ==
  \/ \E b \in Addresses : SwitchWallet(b)
  \/ \E op \in {"deposit", "withdraw"} : FundingOp(op)
  \/ \E op \in {"deposit", "withdraw"} : ShieldOp(op)
  \/ PollerOp

\* credentials of earlier sessions may be stored for either address
SessionInit ==
  /\ Quiescent
  /\ fwrIdle /\ gbIdle /\ spFormIdle /\ routeIdle /\ keyStoreIdle /\ uiIdle
  /\ \E st \in [Addresses -> BOOLEAN] :
       session = [active |-> "A", stored |-> st,
                  fpClient |-> NoClient, spClient |-> NoClient,
                  ctxClient |-> NoClient, spIsInitialized |-> st["A"], ops |-> {}]

SessionSpec == SessionInit /\ [][SessionNext]_vars
\* ------------------------------------------------ the stored credential
\* signatures of SigByteLen bytes over a few byte values
SigByteValues == {0, 1, 57, 58, 255}
SigBytes == [1..SigByteLen -> SigByteValues]

\* the character codes of the base58 alphabet, in order: 1-9, A-H, J-N, P-Z,
\* a-k, m-z
Base58Alphabet ==
  [k \in 1..9 |-> 48 + k] \o [k \in 1..8 |-> 64 + k] \o [k \in 1..5 |-> 73 + k]
    \o [k \in 1..11 |-> 79 + k] \o [k \in 1..11 |-> 96 + k]
    \o [k \in 1..14 |-> 108 + k]

RECURSIVE bytesToInt(_)
bytesToInt(bytes) ==
  IF bytes = <<>> THEN 0
  ELSE bytesToInt(SubSeq(bytes, 1, Len(bytes) - 1)) * 256 + bytes[Len(bytes)]

RECURSIVE leadingZeros(_)
leadingZeros(bytes) ==
  IF bytes = <<>> \/ Head(bytes) # 0 THEN 0 ELSE 1 + leadingZeros(Tail(bytes))

RECURSIVE base58Digits(_)
base58Digits(n) ==
  IF n = 0 THEN <<>>
  ELSE Append(base58Digits(n \div 58), Base58Alphabet[(n % 58) + 1])

\* bs58.encode: one '1' per leading zero byte, then the number in base 58;
\* a string is the sequence of its character codes
bs58encode(bytes) ==
  [k \in 1..leadingZeros(bytes) |-> Base58Alphabet[1]] \o base58Digits(bytesToInt(bytes))

\* Buffer.from(value): the bytes of a Uint8Array, the UTF-8 bytes of a string
\* (one byte per character of the base58 alphabet)
BufferFrom(value) ==
  IF value.type = "bytes" THEN value.data
  ELSE [k \in 1..Len(value.data) |-> value.data[k] % 256]

RECURSIVE toHex(_)
\* toString('hex'): two hexadecimal digits per byte
toHex(bytes) ==
  IF bytes = <<>> THEN <<>>
  ELSE <<Head(bytes) \div 16, Head(bytes) % 16>> \o toHex(Tail(bytes))

\* what storeSignature writes to localStorage
storedValue(signature) == toHex(BufferFrom(signature))

\* tryExternalWalletSignMessage: the provider's signature as a base58 string
externalSignature(sig) == [type |-> "string", data |-> bs58encode(sig)]
\* Privy's signMessage: { signature: Uint8Array }
privySignature(sig) == [type |-> "bytes", data |-> sig]

keyStoreFrame == <<mainVars, fwr, gb, spForm, route, session, wg, walletCache,
  fetchPatch>>

\* FundingPanel.ensureInitialized for an account with nothing stored; an
\* external wallet signs through its provider, else Privy signs
FundingInitialize(signer) ==
  /\ keyStore.stored = NotStored
  /\ LET signature == IF signer = "external" THEN externalSignature(keyStore.sig)
                                             ELSE privySignature(keyStore.sig)
     IN keyStore' = [keyStore EXCEPT
                       !.stored = storedValue(signature),
                       !.inits = Append(@, [by |-> "FundingPanel", signer |-> signer,
                                            value |-> storedValue(signature)])]
  /\ UNCHANGED keyStoreFrame

\* ShieldPanel.initializePrivacyCash, run while its isInitialized, read when
\* the address was set, is false
ShieldInitialize ==
  /\ ~keyStore.spIsInitialized
  /\ keyStore' = [keyStore EXCEPT
                    !.stored = storedValue(privySignature(keyStore.sig)),
                    !.spIsInitialized = TRUE,
                    !.inits = Append(@, [by |-> "ShieldPanel", signer |-> "privy",
                                         value |-> storedValue(privySignature(keyStore.sig))])]
  /\ UNCHANGED keyStoreFrame

KeyStoreNext ==
  \/ \E signer \in {"external", "privy"} : FundingInitialize(signer)
  \/ ShieldInitialize

KeyStoreInit ==
  /\ Quiescent
  /\ fwrIdle /\ gbIdle /\ spFormIdle /\ routeIdle /\ sessionIdle /\ uiIdle
  /\ \E sig \in SigBytes :
       keyStore = [sig |-> sig, stored |-> NotStored, spIsInitialized |-> FALSE,
                   inits |-> <<>>]

KeyStoreSpec == KeyStoreInit /\ [][KeyStoreNext]_vars

\* ------------------------------------- wallet list (WalletGenerator, store)
\* the most wallets a group may hold: 100 in the source
MaxGroupSize == 3
\* handleAddMoreWallets calls in one behaviour
MaxAdds == 2
\* parseInt(walletCount) || 10, on the scale of MaxGroupSize
DefaultWalletCount == 2
\* what parseInt makes of an input field; 0 stands for "0" and for NaN
CountInputs == {-1, 0, 1, MaxGroupSize, MaxGroupSize + 1}
\* walletAddress: wallet?.publicKey || ''
EmptyString == <<>>
\* this.publicKey of the funding account's PrivacyCashClient
FundingAccount == <<"funding", 0>>

wgFrame == <<mainVars, fwr, gb, spForm, route, session, keyStore, walletCache,
  fetchPatch>>

Min(a, b) == IF a < b THEN a ELSE b

\* parseInt(text) || fallback
orDefault(parsed, fallback) == IF parsed = 0 THEN fallback ELSE parsed

\* for (i = 0; i < count; i++) wallets.push({index: startIndex + i, ...})
deriveWallets(seedPhrase, count) ==
  IF count <= 0 THEN <<>>
  ELSE [k \in 1..count |-> [index |-> k - 1, publicKey |-> <<seedPhrase, k - 1>>]]

restoreWalletSet(seedPhrase, walletCount) ==
  [seedPhrase |-> seedPhrase, wallets |-> deriveWallets(seedPhrase, walletCount)]

\* walletSet.wallets.map(w => w.index)
walletIndices(wallets) == [k \in 1..Len(wallets) |-> wallets[k].index]

indexSet(wallets) == {wallets[k].index : k \in 1..Len(wallets)}

RECURSIVE sortSeq(_)
sortSeq(s) == IF s = <<>> THEN <<>> ELSE SortedInsert(sortSeq(Tail(s)), Head(s))

\* store.toggleWallet on any selection: filter, or append and sort
toggleSelection(sel, index) ==
  IF Includes(sel, index)
    THEN SelectSeq(sel, LAMBDA i : i # index)
    ELSE sortSeq(Append(sel, index))

\* store.setWalletSet: every wallet of the new set is selected
setWalletSet(w, walletSet) ==
  [w EXCEPT !.walletSet = walletSet,
            !.selectedWallets = walletIndices(walletSet.wallets)]

\* the effect on [seedPhrase, wallets.length, groupName, archivedWallets]
saveEffect(w) ==
  IF w.walletSet = NoWalletSet THEN w
  ELSE [w EXCEPT !.cached[w.walletSet.seedPhrase] = Len(w.walletSet.wallets)]

\* walletSet.wallets.find(w => w.index === index)?.publicKey || ''
addressOf(wallets, index) ==
  IF \E k \in 1..Len(wallets) : wallets[k].index = index
    THEN (CHOOSE a \in {wallets[k].publicKey : k \in 1..Len(wallets)} :
            \E k \in 1..Len(wallets) :
              wallets[k].index = index /\ wallets[k].publicKey = a)
    ELSE EmptyString

\* withdraw: recipientAddress || this.publicKey.toString()
recipientStr(recipientAddress) ==
  IF recipientAddress = EmptyString THEN FundingAccount ELSE recipientAddress

\* createWalletSet draws a new mnemonic
handleGenerate(seedPhrase, parsed) ==
  /\ wg.tasks = <<>>
  /\ LET count == orDefault(parsed, DefaultWalletCount)
         newWalletSet == restoreWalletSet(seedPhrase, Min(count, MaxGroupSize))
     IN wg' = saveEffect([setWalletSet(wg, newWalletSet) EXCEPT !.archivedWallets = {}])
  /\ UNCHANGED wgFrame

\* a valid phrase of 12 or 24 words
handleImport(seedPhrase, parsed) ==
  /\ wg.tasks = <<>>
  /\ LET count == orDefault(parsed, DefaultWalletCount)
         restored == restoreWalletSet(seedPhrase, Min(count, MaxGroupSize))
     IN wg' = saveEffect([setWalletSet(wg, restored) EXCEPT !.archivedWallets = {}])
  /\ UNCHANGED wgFrame

\* the cached entry holds no archivedIndices: data.archivedIndices || []
handleRestoreFromCache(seedPhrase) ==
  /\ wg.tasks = <<>>
  /\ wg.cached[seedPhrase] # NotCached
  /\ LET restored == restoreWalletSet(seedPhrase, wg.cached[seedPhrase])
     IN wg' = saveEffect([setWalletSet(wg, restored) EXCEPT !.archivedWallets = {}])
  /\ UNCHANGED wgFrame

\* the button that starts a new group
NewGroup ==
  /\ wg.tasks = <<>>
  /\ wg.walletSet # NoWalletSet
  /\ wg' = [wg EXCEPT !.walletSet = NoWalletSet, !.selectedWallets = <<>>,
                      !.archivedWallets = {}]
  /\ UNCHANGED wgFrame

handleArchiveWallet(index) ==
  /\ wg.tasks = <<>>
  /\ index \in indexSet(wg.walletSet.wallets)
  /\ wg' = saveEffect(
       IF index \in wg.archivedWallets
         THEN [wg EXCEPT !.archivedWallets = @ \ {index}]
         ELSE [wg EXCEPT !.archivedWallets = @ \cup {index},
                         !.selectedWallets = SelectSeq(@, LAMBDA i : i # index)])
  /\ UNCHANGED wgFrame

\* the list shows the wallets that are not archived
ToggleListed(index) ==
  /\ wg.tasks = <<>>
  /\ index \in indexSet(wg.walletSet.wallets) \ wg.archivedWallets
  /\ wg' = [wg EXCEPT !.selectedWallets = toggleSelection(@, index)]
  /\ UNCHANGED wgFrame

selectAllWallets ==
  /\ wg.tasks = <<>>
  /\ wg.walletSet # NoWalletSet
  /\ wg' = [wg EXCEPT !.selectedWallets = walletIndices(wg.walletSet.wallets)]
  /\ UNCHANGED wgFrame

deselectAllWallets ==
  /\ wg.tasks = <<>>
  /\ wg.walletSet # NoWalletSet
  /\ wg' = [wg EXCEPT !.selectedWallets = <<>>]
  /\ UNCHANGED wgFrame

handleAddMoreWallets(parsed) ==
  /\ wg.tasks = <<>>
  /\ wg.walletSet # NoWalletSet
  /\ wg.adds < MaxAdds
  /\ LET currentCount == Len(wg.walletSet.wallets)
         maxAllowed == MaxGroupSize - currentCount
         additionalCount == Min(orDefault(parsed, 1), maxAllowed)
         newTotal == currentCount + additionalCount
         restored == restoreWalletSet(wg.walletSet.seedPhrase, newTotal)
         newIndices == walletIndices(SubSeq(restored.wallets, currentCount + 1,
                                            Len(restored.wallets)))
     IN IF maxAllowed <= 0
          THEN wg' = [wg EXCEPT !.adds = @ + 1]
          ELSE wg' = saveEffect([setWalletSet(wg, restored) EXCEPT
                        !.selectedWallets = wg.selectedWallets \o newIndices,
                        !.adds = @ + 1])
  /\ UNCHANGED wgFrame

\* FundingPanel.handleFund up to setFundingTasks(tasks); canFund asks for a
\* recipient, the balances are taken to suffice
CreateTasks ==
  /\ wg.tasks = <<>>
  /\ wg.walletSet # NoWalletSet
  /\ Len(wg.selectedWallets) > 0
  /\ wg' = [wg EXCEPT !.tasks =
       [k \in 1..Len(wg.selectedWallets) |->
          [id |-> wg.selectedWallets[k], walletIndex |-> wg.selectedWallets[k],
           walletAddress |-> addressOf(wg.walletSet.wallets, wg.selectedWallets[k])]]]
  /\ UNCHANGED wgFrame

\* resetFunding: setFundingTasks([])
ClearTasks ==
  /\ wg.tasks # <<>>
  /\ wg' = [wg EXCEPT !.tasks = <<>>]
  /\ UNCHANGED wgFrame

WalletNext ==
  \/ \E s \in Seeds, c \in CountInputs : handleGenerate(s, c)
  \/ \E s \in Seeds, c \in CountInputs : handleImport(s, c)
  \/ \E s \in Seeds : handleRestoreFromCache(s)
  \/ NewGroup
  \/ \E i \in 0..(MaxGroupSize - 1) : handleArchiveWallet(i)
  \/ \E i \in 0..(MaxGroupSize - 1) : ToggleListed(i)
  \/ selectAllWallets
  \/ deselectAllWallets
  \/ \E c \in CountInputs : handleAddMoreWallets(c)
  \/ CreateTasks
  \/ ClearTasks

WalletInit ==
  /\ Quiescent
  /\ fwrIdle /\ gbIdle /\ spFormIdle /\ routeIdle /\ sessionIdle /\ keyStoreIdle
  /\ uiIdle

WalletSpec == WalletInit /\ [][WalletNext]_vars

\* --------------------------------------- wallet cache (wallet persistence)
\* the words "act" and "add" as char codes
WordAct == <<97, 99, 116>>
WordAdd == <<97, 100, 100>>
Vocabulary == {WordAct, WordAdd}
PhraseLen == 12
\* the places where the seed phrases of the model differ: one among the
\* first three words, one in the middle
VaryingPositions == {1, 6}
SeedPhrases ==
  {p \in [1..PhraseLen -> Vocabulary] :
     \A k \in (1..PhraseLen) \ VaryingPositions : p[k] = WordAct}
CachedCounts == {1, 2}
Space == 32
\* getObfuscationKey without a navigator: 'boo_default_en_privacy'
ObfuscationKey == <<98, 111, 111, 95, 100, 101, 102, 97, 117, 108, 116, 95, 101, 110, 95, 112, 114, 105, 118, 97, 99, 121>>

walletCacheFrame == <<mainVars, fwr, gb, spForm, route, session, keyStore, wg,
  fetchPatch>>

RECURSIVE joinWords(_, _)
\* words.join(separator), separator a sequence of char codes
joinWords(words, separator) ==
  IF words = <<>> THEN <<>>
  ELSE IF Len(words) = 1 THEN words[1]
  ELSE words[1] \o separator \o joinWords(Tail(words), separator)

RECURSIVE splitWords(_, _)
\* text.split(/\s+/) of a text without leading or trailing blanks; word is
\* the word being read
splitWords(text, word) ==
  IF text = <<>> THEN <<word>>
  ELSE IF Head(text) = Space
    THEN (IF word = <<>> THEN <<>> ELSE <<word>>) \o splitWords(Tail(text), <<>>)
    ELSE splitWords(Tail(text), Append(word, Head(text)))

\* ((hash << 5) - hash) + char, then hash & hash: 31 * hash + char in 32
\* bits; the hash is held as its two 16-bit halves
hashStep(h, char) ==
  LET low == h[2] * 31 + char
  IN <<(h[1] * 31 + low \div 65536) % 65536, low % 65536>>

RECURSIVE hashOf(_, _)
hashOf(identifier, h) ==
  IF identifier = <<>> THEN h
  ELSE hashOf(Tail(identifier), hashStep(h, Head(identifier)))

\* Math.abs of the signed 32-bit value of the two halves
absHash(h) ==
  IF h[1] < 32768 THEN h[1] * 65536 + h[2]
  ELSE (65535 - h[1]) * 65536 + (65536 - h[2])

RECURSIVE toString36(_)
\* Number.prototype.toString(36), as digit values
toString36(n) ==
  IF n < 36 THEN <<n>> ELSE Append(toString36(n \div 36), n % 36)

\* first 3 and last 2 words, joined without separator, hashed
generateCacheKey(seedPhrase) ==
  LET words == seedPhrase
      identifier == joinWords(SubSeq(words, 1, 3), <<>>)
                      \o joinWords(SubSeq(words, Len(words) - 1, Len(words)), <<>>)
  IN toString36(absHash(hashOf(identifier, <<0, 0>>)))

RECURSIVE xor(_, _)
xor(a, b) ==
  IF a = 0 THEN b
  ELSE IF b = 0 THEN a
  ELSE ((a + b) % 2) + 2 * xor(a \div 2, b \div 2)

\* dataBytes[i] ^ keyBytes[i % keyBytes.length]
xorWithKey(bytes, key) ==
  [i \in 1..Len(bytes) |-> xor(bytes[i], key[((i - 1) % Len(key)) + 1])]

RECURSIVE btoa(_)
\* base64: three bytes make four 6-bit digits; 64 stands for '='
btoa(bytes) ==
  IF bytes = <<>> THEN <<>>
  ELSE IF Len(bytes) = 1
    THEN <<bytes[1] \div 4, (bytes[1] % 4) * 16, 64, 64>>
  ELSE IF Len(bytes) = 2
    THEN <<bytes[1] \div 4, (bytes[1] % 4) * 16 + bytes[2] \div 16,
           (bytes[2] % 16) * 4, 64>>
  ELSE <<bytes[1] \div 4, (bytes[1] % 4) * 16 + bytes[2] \div 16,
         (bytes[2] % 16) * 4 + bytes[3] \div 64, bytes[3] % 64>>
         \o btoa(SubSeq(bytes, 4, Len(bytes)))

RECURSIVE atob(_)
atob(digits) ==
  IF digits = <<>> THEN <<>>
  ELSE LET first == digits[1] * 4 + digits[2] \div 16
           second == (digits[2] % 16) * 16 + digits[3] \div 4
           third == (digits[3] % 4) * 64 + digits[4]
       IN (IF digits[3] = 64 THEN <<first>>
           ELSE IF digits[4] = 64 THEN <<first, second>>
           ELSE <<first, second, third>>) \o atob(SubSeq(digits, 5, Len(digits)))

obfuscate(data, key) == btoa(xorWithKey(data, key))

deobfuscate(encoded, key) == xorWithKey(atob(encoded), key)

\* localStorage.getItem(cacheKey) among the wallet entries
hasItem(storage, cacheKey) == \E e \in storage : e.key = cacheKey
getItem(storage, cacheKey) == CHOOSE e \in storage : e.key = cacheKey

\* localStorage.setItem(cacheKey, JSON.stringify(cacheData))
setItem(storage, cacheKey, cacheData) ==
  {e \in storage : e.key # cacheKey}
    \cup {[key |-> cacheKey, seedPhrase |-> cacheData.seedPhrase,
           walletCount |-> cacheData.walletCount]}

\* what loadWalletFromCache returns
loadResult(storage, cacheKey) ==
  IF ~hasItem(storage, cacheKey) THEN NullCached
  ELSE LET cached == getItem(storage, cacheKey)
           seedPhrase == deobfuscate(cached.seedPhrase, ObfuscationKey)
       IN IF seedPhrase = <<>> \/ Len(splitWords(seedPhrase, <<>>)) < 12
            THEN NullCached
            ELSE [seedPhrase |-> splitWords(seedPhrase, <<>>),
                  walletCount |-> cached.walletCount]

saveWalletToCache(seedPhrase, walletCount) ==
  /\ LET cacheKey == generateCacheKey(seedPhrase)
         cacheData == [seedPhrase |-> obfuscate(joinWords(seedPhrase, <<Space>>),
                                                ObfuscationKey),
                       walletCount |-> walletCount]
     IN walletCache' = [walletCache EXCEPT
          !.storage = setItem(@, cacheKey, cacheData),
          !.cacheKeys = IF Includes(@, cacheKey) THEN @ ELSE Append(@, cacheKey),
          !.saved = @ \cup {seedPhrase}]
  /\ UNCHANGED walletCacheFrame

\* the entry is written back with a new lastAccessedAt
loadWalletFromCache(cacheKey) ==
  /\ walletCache' = [walletCache EXCEPT
       !.loaded = loadResult(walletCache.storage, cacheKey)]
  /\ UNCHANGED walletCacheFrame

CacheNext ==
  \/ \E p \in SeedPhrases, n \in CachedCounts : saveWalletToCache(p, n)
  \/ \E p \in SeedPhrases : loadWalletFromCache(generateCacheKey(p))

CacheInit ==
  /\ Quiescent
  /\ fwrIdle /\ gbIdle /\ spFormIdle /\ routeIdle /\ sessionIdle /\ keyStoreIdle
  /\ uiIdle

CacheSpec == CacheInit /\ [][CacheNext]_vars

\* ------------------------------------------------------ fetch interceptor
\* calls of patch, restore and window.fetch in one behaviour
MaxFetchCalls == 4
\* a URL of api3.privacycash.org, a text that contains the host but that
\* new URL() rejects, and any other URL
Urls == {"api", "unparsable", "other"}

fetchPatchFrame == <<mainVars, fwr, gb, spForm, route, session, keyStore, wg,
  walletCache>>

\* variant of patchNeeded: the isPatched flag is not consulted
patchNeeded_always(isPatched) == TRUE

\* if (isPatched) return
patchNeeded(isPatched) == ~isPatched

\* what the request of a call of fn ends up as: patchedFetch hands the proxy
\* URL, or the input itself, to whatever originalFetch holds at that moment
requestOf(fn, url, originalFetch) ==
  IF fn.fn = "patchedFetch"
    THEN [by |-> originalFetch,
          url |-> IF url = "api" THEN "/api/privacy-cash" ELSE url]
    ELSE [by |-> fn, url |-> url]

patchFetchForPrivacyCash(hasWindow) ==
  /\ Len(fetchPatch.calls) < MaxFetchCalls
  /\ fetchPatch' =
       IF hasWindow /\ patchNeeded(fetchPatch.isPatched)
         THEN [fetchPatch EXCEPT
                 !.originalFetch = fetchPatch.windowFetch,
                 !.isPatched = TRUE,
                 !.windowFetch = [fn |-> "patchedFetch", n |-> fetchPatch.created + 1],
                 !.created = @ + 1,
                 !.calls = Append(@, [op |-> "patch", window |-> hasWindow])]
         ELSE [fetchPatch EXCEPT
                 !.calls = Append(@, [op |-> "patch", window |-> hasWindow])]
  /\ UNCHANGED fetchPatchFrame

restoreOriginalFetch(hasWindow) ==
  /\ Len(fetchPatch.calls) < MaxFetchCalls
  /\ fetchPatch' =
       IF hasWindow /\ fetchPatch.isPatched
         THEN [fetchPatch EXCEPT
                 !.windowFetch = fetchPatch.originalFetch,
                 !.isPatched = FALSE,
                 !.calls = Append(@, [op |-> "restore", window |-> hasWindow])]
         ELSE [fetchPatch EXCEPT
                 !.calls = Append(@, [op |-> "restore", window |-> hasWindow])]
  /\ UNCHANGED fetchPatchFrame

\* some code of the page calls window.fetch(url)
CallFetch(url) ==
  /\ Len(fetchPatch.calls) < MaxFetchCalls
  /\ fetchPatch' = [fetchPatch EXCEPT !.calls =
       Append(@, [op |-> "fetch", window |-> TRUE,
                  request |-> requestOf(fetchPatch.windowFetch, url,
                                        fetchPatch.originalFetch),
                  asked |-> url])]
  /\ UNCHANGED fetchPatchFrame

FetchNext ==
  \/ \E hasWindow \in BOOLEAN : patchFetchForPrivacyCash(hasWindow)
  \/ \E hasWindow \in BOOLEAN : restoreOriginalFetch(hasWindow)
  \/ \E url \in Urls : CallFetch(url)

FetchInit ==
  /\ Quiescent
  /\ fwrIdle /\ gbIdle /\ spFormIdle /\ routeIdle /\ sessionIdle /\ keyStoreIdle
  /\ uiIdle

FetchSpec == FetchInit /\ [][FetchNext]_vars

\* ------------------------------------------------------------ properties
ShieldingPcs == {"blockhash", "feeSign", "feeSend", "feeConfirm", "deposit",
                 "balanceAfterDeposit", "settle"}
DistributingPcs == {"withdraw", "balanceAfterWithdraw", "delay"}
\* awaiting deposit, withdraw or the orchestrator's own getBalance
ServiceCallPcs == {"deposit", "balanceAfterDeposit", "withdraw", "balanceAfterWithdraw"}
InProgress(r) == run[r].pc \in {"signing"} \cup ShieldingPcs \cup DistributingPcs
Finishes(r) == run[r].pc # "done" /\ run'[r].pc = "done"

OkCount(r) == Cardinality({k \in 1..Len(run[r].wlog) : run[r].wlog[k].res = "ok"})

\* what C1 says of the store when run r has ended
RunOutcomeRecorded(r) ==
  LET rec == run[r] IN
  /\ Len(rec.wlog) = Len(rec.sel)
  /\ Len(fundingTasks) = Len(rec.sel)
  /\ \A k \in 1..Len(rec.sel) :
       /\ rec.wlog[k].to = rec.sel[k]
       /\ fundingTasks[k].walletIndex = rec.sel[k]
       /\ rec.wlog[k].res = "ok" <=>
            (fundingTasks[k].status = "success" /\ fundingTasks[k].signature = <<r, k>>)
       /\ rec.wlog[k].res = "throw" <=>
            (fundingTasks[k].status = "error" /\ fundingTasks[k].error = "failed")
  /\ fundingStatus = "complete"
  /\ successCount = OkCount(r)

\* C1: when a run that reached the distribution ends, every recipient's
\* withdraw has been attempted, each task is 'success' with the returned
\* signature exactly when its own withdraw returned and 'error' with the
\* message exactly when it threw, the status is 'complete' and successCount
\* is the number of withdraw calls that returned.
C1_PartialFailureRecorded ==
  [][\A r \in Runs : (Finishes(r) /\ run'[r].tasksCreated) => RunOutcomeRecorded(r)']_vars

\* C2: at most one private-service call of funding runs is outstanding, and
\* at most one run is distributing (writing the task list).
C2_OneRunOneCall ==
  /\ Cardinality({r \in Runs : run[r].pc \in ServiceCallPcs}) <= 1
  /\ Cardinality({r \in Runs : run[r].pc \in DistributingPcs}) <= 1

\* C3: the withdraw calls of a run go to its recipients in their order, and
\* while the run distributes the task list of the store has that order.
C3_SelectionOrder ==
  \A r \in Runs :
    /\ Len(run[r].wlog) <= Len(run[r].sel)
    /\ \A k \in 1..Len(run[r].wlog) : run[r].wlog[k].to = run[r].sel[k]
    /\ run[r].pc \in DistributingPcs =>
         /\ Len(fundingTasks) = Len(run[r].sel)
         /\ \A k \in 1..Len(fundingTasks) : fundingTasks[k].walletIndex = run[r].sel[k]

AllowedTransition(a, b) ==
  \/ a = b
  \/ a = "pending" /\ b = "processing"
  \/ a = "processing" /\ b \in {"success", "error"}

\* a step that replaces the whole list: resetFunding, or the setFundingTasks
\* of a starting distribution
ListReplaced ==
  \/ fundingTasks' = <<>>
  \/ \E r \in Runs : ~run[r].tasksCreated /\ run'[r].tasksCreated

\* C4: an update of a task changes its status only along
\* pending -> processing -> success | error.
C4_MonotonicStatus ==
  [][~ListReplaced =>
       /\ Len(fundingTasks') = Len(fundingTasks)
       /\ \A k \in 1..Len(fundingTasks) :
            AllowedTransition(fundingTasks[k].status, fundingTasks'[k].status)]_vars


ShieldingThrew(r) == run[r].feeResult = "threw" \/ run[r].depositResult = "threw"

\* C5: a run whose protocol-fee transfer or deposit threw has ended, created
\* no task and called no withdraw, and the step in which it threw set the
\* status to 'error'.
C5_ShieldingFailureIsFatal ==
  /\ [](\A r \in Runs : ShieldingThrew(r) =>
          /\ run[r].pc = "done"
          /\ run[r].endStatus = "error"
          /\ ~run[r].tasksCreated
          /\ run[r].wlog = <<>>)
  /\ [][\A r \in Runs : (~ShieldingThrew(r) /\ ShieldingThrew(r)') =>
          /\ fundingStatus' = "error"
          /\ fundingTasks' = fundingTasks]_vars

C5_Witness ==
  \E r \in Runs : run[r].depositResult = "threw" /\ run[r].feeResult = "confirmed"
                  /\ fundingStatus = "error"

\* C6: deposit is called only after the protocol-fee transfer was confirmed
\* as successful.
C6_DepositAfterConfirmedFee ==
  \A r \in Runs : run[r].depositResult # "none" => run[r].feeResult = "confirmed"

InitFails(r) == run[r].pc = "signing" /\ run'[r].pc = "initFailed"
NoTransfers(r) ==
  run[r].feeResult = "none" /\ run[r].depositResult = "none" /\ run[r].wlog = <<>>

C8_ShieldingStatus ==
  \A r \in Runs : run[r].pc \in ShieldingPcs => fundingStatus = "shielding"

NotStarted(r) == run[r].pc \in {"new", "signing"}
Covered(r) ==
  run[r].pc # "new" /\ run[r].startShielded >= totalWithFees(run[r].amount, Len(run[r].sel))

Rejects(r) == run[r].pc = "new" /\ run'[r].pc = "rejected"
Invoked(r) == run[r].pc = "new" /\ run'[r].pc # "new"

\* C10: handleFund invoked with no recipient selected, or with an amount
\* that is not > 0, returns at once: the status is still 'idle' and nothing
\* but the record of the invocation changes; such a run never signs,
\* transfers, deposits or withdraws.
C10_EmptyRequestRejected ==
  /\ [][\A r \in Runs :
          /\ (Invoked(r) /\ (Len(selectedWallets) = 0 \/ amountPerWallet <= 0))
               => Rejects(r)
          /\ Rejects(r) =>
               /\ fundingStatus' = "idle"
               /\ UNCHANGED <<selectedWallets, amountPerWallet, fundingStatus,
                              fundingTasks, storeShielded, isShielding, progress,
                              abortRef, isPaused, shieldedBalance, publicBalance,
                              refreshing, credential, pool, chainPublic>>]_vars
  /\ [](\A r \in Runs : run[r].pc = "rejected" =>
          NoTransfers(r) /\ ~run[r].signAsked /\ ~run[r].tasksCreated)

C10_Witness ==
  \E r \in Runs : run[r].pc = "rejected" /\ run[r].sel = <<>> /\ run[r].amount > 0

Exits(r) ==
  /\ run[r].pc \notin {"rejected", "initFailed", "done"}
  /\ run'[r].pc \in {"initFailed", "done"}

\* C11: the step on which an invocation that paused polling returns --
\* after a failed initialization, a fatal shielding error or the end of the
\* distribution -- resumes polling and starts a refresh of the balances.
C11_ExitResumesAndRefreshes ==
  [][\A r \in Runs : Exits(r) => (isPaused' = FALSE /\ refreshing' = TRUE)]_vars

\* the polling interval fired
Polled == ~refreshing /\ refreshing' /\ isPaused' = isPaused /\ run' = run /\ spPc' = spPc

\* C12: while a funding run is in progress the pause flag is set and no
\* polling-triggered refresh starts, whatever the ShieldPanel does.
C12_PausedThroughoutRun ==
  /\ [](\A r \in Runs : InProgress(r) => isPaused)
  /\ [][(\E r \in Runs : InProgress(r)) => ~Polled]_vars

\* the invocation passes initialization and goes on to shield or distribute
Starts(r) ==
  /\ run[r].pc \in {"new", "signing"}
  /\ run'[r].pc \in ShieldingPcs \cup DistributingPcs \cup {"done"}

\* C13: when a run starts, its needsShielding, amountToShield and
\* protocolFee are those computed from the shielded balance of that moment.
C13_DecisionFromCurrentBalance ==
  [][\A r \in Runs : Starts(r) =>
       LET total == totalWithFees(run'[r].amount, Len(run'[r].sel)) IN
       /\ run'[r].needs = needsShielding(pool, total)
       /\ run'[r].toShield = amountToShield(pool, total)
       /\ run'[r].fee = protocolFee(amountToShield(pool, total))]_vars

\* C14: when a withdraw of a run is outstanding, the shielded balance covers
\* the gross amounts of that task and of the run's tasks not yet attempted.
C14_WithdrawalsFunded ==
  \A r \in Runs : run[r].pc = "withdraw" =>
    pool >= withdrawAmountPerWallet(run[r].amount) * (Len(run[r].sel) - run[r].i + 1)

\* C15: what the recipient of a task receives -- the gross amount less the
\* service's fee on the gross amount and the flat rent -- is the intended
\* per-wallet amount within one lamport.
C15_RecipientGetsAmount ==
  \A r \in Runs : \A k \in 1..Len(run[r].wlog) :
    run[r].wlog[k].res = "ok" =>
      LET got == recipientReceives(withdrawAmountPerWallet(run[r].amount)) IN
      got - run[r].amount \in -1..1

\* C16: a run submits at most one protocol-fee transfer, calls deposit at
\* most once and calls withdraw at most once per recipient, failed or not.
C16_NoRetry ==
  \A r \in Runs :
    /\ run[r].feeSends <= 1
    /\ run[r].depositCalls <= 1
    /\ Len(run[r].wlog) <= Len(run[r].sel)
    /\ \A j, k \in 1..Len(run[r].wlog) : j # k => run[r].wlog[j].to # run[r].wlog[k].to

C16_Witness ==
  \E r \in Runs :
    /\ run[r].pc = "done" /\ run[r].feeSends = 1 /\ run[r].depositCalls = 1
    /\ Len(run[r].wlog) = NumWallets
    /\ run[r].wlog[1].res = "throw"

\* C17: when a withdraw is issued after the deposit or after a successful
\* withdraw, the shielded balance the panels observe is the one getBalance
\* returned after that step.
C17_ObservedBalanceRequeried ==
  \A r \in Runs :
    (run[r].pc = "withdraw" /\ (run[r].depositResult = "ok" \/ OkCount(r) > 0))
      => shieldedBalance = storeShielded

\* C18: a status of 'complete' or 'error' changes only by resetFunding, which
\* sets it to 'idle', empties the task list, zeroes progress and clears the
\* abort flag; until then no invocation of handleFund starts.
C18_TerminalUntilReset ==
  [][isComplete =>
       \/ /\ fundingStatus' = fundingStatus
          /\ \A r \in Runs : ~Invoked(r)
       \/ /\ fundingStatus' = "idle"
          /\ fundingTasks' = <<>>
          /\ progress' = 0
          /\ abortRef' = FALSE
          /\ run' = run]_vars

\* C19: while a run is distributing, some operation of the program can set
\* the abort flag.
C19_AbortAvailable ==
  (\E r \in Runs : run[r].pc \in DistributingPcs) => ENABLED (Next /\ abortRef')

SignatureRequested ==
  \/ \E r \in Runs : run[r].pc # "signing" /\ run'[r].pc = "signing"
  \/ spPc # "initializing" /\ spPc' = "initializing"

\* C20: no panel asks for the message signature while a credential is
\* stored for the address.
C20_NoSignatureOnceStored ==
  [][SignatureRequested => ~credential]_vars

\* the fee model as every render computes it from the store and the context
RenderTotal == totalWithFees(amountPerWallet, Len(selectedWallets))

\* C26: amountToShield is max(0, totalWithFees - shieldedBalance): 0 when the
\* shielded balance covers the total, the difference otherwise, never
\* negative, and > 0 exactly when needsShielding.
C26_AmountToShield ==
  LET toShield == amountToShield(shieldedBalance, RenderTotal) IN
  /\ shieldedBalance >= RenderTotal => toShield = 0
  /\ shieldedBalance < RenderTotal => toShield = RenderTotal - shieldedBalance
  /\ toShield >= 0
  /\ toShield > 0 <=> needsShielding(shieldedBalance, RenderTotal)
  /\ \A r \in Runs : run[r].pc # "new" =>
       /\ run[r].toShield >= 0
       /\ run[r].toShield > 0 <=> run[r].needs

\* one run started with more than its total (nothing to shield), another
\* topped up a partly sufficient balance
C26_Witness ==
  /\ \E r \in Runs : /\ run[r].pc = "done" /\ run[r].amount > 0
                      /\ run[r].startShielded > totalWithFees(run[r].amount, Len(run[r].sel))
                      /\ run[r].toShield = 0
  /\ \E r \in Runs : run[r].startShielded > 0 /\ run[r].toShield > 0
                      /\ run[r].depositResult = "ok"

\* the updates handleFund passes to updateFundingTask
TaskUpdates ==
  { [status |-> "processing"],
    [status |-> "success", signature |-> <<1, 1>>],
    [status |-> "error", error |-> "failed"] }

\* C28: updateFundingTask changes only the fields named in the update, on
\* the task with the given id; the other tasks, the other fields, the order
\* and the length of the list are unchanged, and an id that matches no task
\* leaves the list unchanged.
C28_UpdateFrame ==
  \A id \in 0..NumWallets : \A update \in TaskUpdates :
    LET after == updateFundingTask(fundingTasks, id, update) IN
    /\ Len(after) = Len(fundingTasks)
    /\ \A k \in 1..Len(fundingTasks) :
         /\ DOMAIN after[k] = DOMAIN fundingTasks[k]
         /\ fundingTasks[k].id # id => after[k] = fundingTasks[k]
         /\ fundingTasks[k].id = id =>
              \A f \in DOMAIN after[k] :
                after[k][f] = IF f \in DOMAIN update THEN update[f] ELSE fundingTasks[k][f]
    /\ (\A k \in 1..Len(fundingTasks) : fundingTasks[k].id # id) => after = fundingTasks

\* two tasks in the list, the first updated to 'success', the second untouched
C28_Witness ==
  /\ Len(fundingTasks) = NumWallets
  /\ fundingTasks[1].status = "success" /\ fundingTasks[1].signature # NoSig
  /\ fundingTasks[NumWallets].status = "pending"
  /\ fundingTasks[NumWallets].signature = NoSig

fwrDone == fwr.pc \in {"returned", "thrown"}
RetryOutcomes == {502, 503, 504, Threw}

\* C23: fetchWithRetry issues at most maxRetries requests and ends; an attempt
\* is followed by another exactly when it answered 502, 503 or 504 or threw
\* and attempts remain, after a wait of baseDelay * 2^attempt; any other
\* response is returned at once; with the attempts used up the last
\* 502/503/504 response is returned, the last error thrown.
C23_RetrySafe ==
  LET n == Len(fwr.outcomes) IN
  /\ fwr.requests <= fwr.maxRetries
  /\ fwr.requests = n + (IF fwr.pc = "fetch" THEN 1 ELSE 0)
  /\ \A k \in 1..n :
       (k < n \/ fwr.pc \in {"wait", "fetch"}) <=>
         (fwr.outcomes[k] \in RetryOutcomes /\ k < fwr.maxRetries)
  /\ Len(fwr.waits) = (IF fwrDone THEN n - 1 ELSE n)
  /\ \A k \in 1..Len(fwr.waits) : fwr.waits[k] = fwr.baseDelayMs * 2 ^ (k - 1)
  /\ fwr.pc = "returned" => fwr.outcomes[n] # Threw /\ fwr.result = fwr.outcomes[n]
  /\ fwr.pc = "thrown" => /\ fwr.outcomes[n] = Threw
                          /\ n = fwr.maxRetries
                          /\ fwr.result = n
  /\ fwrDone /\ fwr.outcomes[n] = Threw => fwr.pc = "thrown"

C23_RetryBounded == []C23_RetrySafe /\ <>fwrDone

\* all five attempts of a POST used: errors and 502/503, the last answers 504
C23_Witness ==
  /\ fwr.pc = "returned" /\ fwr.result = 504
  /\ fwr.maxRetries = 5 /\ fwr.requests = 5
  /\ \E k \in 1..4 : fwr.outcomes[k] = Threw
  /\ fwr.waits = <<3000, 6000, 12000, 24000>>

\* C24: getBalance returns 0 without throwing for an account without funds
\* and throws only on an I/O failure; every value it returns is the account's
\* private balance, an I/O failure is never reported as a balance of 0.
C24_BalanceIsActual ==
  \A k \in 1..Len(gb.calls) :
    /\ gb.calls[k].threw => gb.calls[k].ioFailed
    /\ ~gb.calls[k].threw => /\ gb.calls[k].lamports = pool
                             /\ ~gb.calls[k].ioFailed

\* C25: two consecutive getBalance calls on one client, with no deposit or
\* withdraw between them, return the same value.
C25_SameValueTwice ==
  \A k \in 1..(Len(gb.calls) - 1) :
    ~gb.calls[k].threw /\ ~gb.calls[k + 1].threw =>
      gb.calls[k].lamports = gb.calls[k + 1].lamports

\* C27: for every available balance the amount the Max control fills in is
\* >= 0 and, when it is > 0, amount + fees (shield: 0.5%; unshield: 0.35% +
\* rent) do not exceed the balance, so it passes the panel's canExecute.
\* (An amount of 0 is what Math.max(0, ...) leaves when the balance is below
\* the rent; the ceiling is asked of the amounts that can be executed.)
C27_MaxWithinCeiling ==
  spForm.fromMax =>
    /\ spForm.amount >= 0
    /\ spForm.amount > 0 =>
         /\ costWithin(spForm.mode, formAmountNum, availableBalance(spForm.mode))
         /\ canExecute(spForm.mode, formAmountNum)

\* C29: every response of the deposit route with success: true carries a
\* string of at least 80 characters that is not all '1' and not all '0';
\* every other response is an error with status 400 or 500 whose success flag
\* is not true.
C29_SuccessCarriesSignature ==
  route.pc = "responded" =>
    LET resp == route.response IN
    IF resp.success = "true"
      THEN /\ resp.status = 200
           /\ resp.signature.kind = "string"
           /\ resp.signature.len >= 80
           /\ resp.signature.chars \notin {"ones", "zeros"}
      ELSE /\ resp.status \in {400, 500}
           /\ resp.signature = NullSig

\* a direct submission answered with success on the third attempt
C29_Witness ==
  /\ route.pc = "responded"
  /\ route.response.success = "true"
  /\ route.response.method = "direct"
  /\ route.response.signature.len = 80
  /\ route.attempt = DIRECT_ATTEMPTS - 1

\* C30: the deposit route never answers success: true for a directly
\* submitted transaction whose confirmation reported an on-chain error; such
\* an attempt counts as failed.
C30_NoSuccessAfterChainError ==
  (route.pc = "responded" /\ route.response.success = "true"
     /\ route.response.method = "direct") => ~route.confirmErr

\* C21: after the active wallet address changes from A to B, every deposit,
\* withdraw or getBalance issued by FundingPanel, ShieldPanel or the balance
\* poller uses a client constructed for B; a client cached for A is not used
\* again.
C21_ClientOfActiveAddress ==
  \A o \in session.ops : o.client = o.active

\* C22: the credential stored for a wallet address is the same value
\* whichever route produced it (FundingPanel with the external provider,
\* FundingPanel with Privy, ShieldPanel with Privy): two initializations of
\* one account store the same credential.
C22_CredentialStable ==
  \A j, k \in 1..Len(keyStore.inits) :
    keyStore.inits[j].value = keyStore.inits[k].value

\* C31: when a shield starts with its balance check passed and nothing else
\* spends the public balance, what is left after the protocol-fee transfer
\* meets deposit's precondition balance >= depositLamports + 10000: the fee
\* is never paid on a run whose deposit is then rejected for insufficient
\* balance.
C31_FeePaidImpliesDepositFunded ==
  \A r \in Runs :
    (run[r].pc = "deposit" /\ run[r].feeResult = "confirmed") =>
      chainPublic >= run[r].toShield + DEPOSIT_MARGIN

\* C32: every task a funding run creates has an id that no other task of
\* the run has, and carries the public key of the wallet with its index in
\* the current wallet set, never the empty string; so withdraw is never
\* handed a recipient that makes it pay the funding account itself.
C32_TasksNameWallets ==
  \A j \in 1..Len(wg.tasks) :
    /\ \A k \in 1..Len(wg.tasks) : wg.tasks[j].id = wg.tasks[k].id => j = k
    /\ wg.tasks[j].walletAddress # EmptyString
    /\ \E w \in 1..Len(wg.walletSet.wallets) :
         /\ wg.walletSet.wallets[w].index = wg.tasks[j].walletIndex
         /\ wg.walletSet.wallets[w].publicKey = wg.tasks[j].walletAddress
    /\ recipientStr(wg.tasks[j].walletAddress) # FundingAccount

\* C34: no archived wallet is selected, and no task is created for one.
C34_ArchivedNotSelected ==
  /\ \A k \in 1..Len(wg.selectedWallets) :
       wg.selectedWallets[k] \notin wg.archivedWallets
  /\ \A k \in 1..Len(wg.tasks) : wg.tasks[k].walletIndex \notin wg.archivedWallets

\* C35: a call of handleAddMoreWallets leaves every wallet there was in
\* place with its index and address, does not make the set smaller or larger
\* than the limit, and leaves the indices 0..size-1 in order.
C35_AddKeepsWallets ==
  [][wg'.adds = wg.adds + 1 =>
       LET old == wg.walletSet.wallets
           new == wg'.walletSet.wallets
       IN /\ Len(new) >= Len(old)
          /\ Len(new) <= MaxGroupSize
          /\ \A k \in 1..Len(old) : k <= Len(new) /\ new[k] = old[k]
          /\ \A k \in 1..Len(new) : new[k].index = k - 1]_vars

\* C33: while the store's status is 'complete', every task of the list is
\* 'success' or 'error', and the list holds one task for each recipient of
\* a run that completed, in the run's order.
C33_CompleteMeansSettled ==
  fundingStatus = "complete" =>
    /\ \A k \in 1..Len(fundingTasks) : fundingTasks[k].status \in {"success", "error"}
    /\ \E r \in Runs :
         /\ run[r].endStatus = "complete"
         /\ Len(fundingTasks) = Len(run[r].sel)
         /\ \A k \in 1..Len(fundingTasks) : fundingTasks[k].walletIndex = run[r].sel[k]

\* C36: the transaction is sent directly only after the relayer attempt
\* failed, was not ok or returned a rejected signature; at most three sends
\* are made, with waits of 2 s and then 4 s between them; no send follows an
\* attempt that was confirmed or found on-chain; and every request received
\* is answered.
DirectPcs == {"getSlot", "blockhash", "send", "confirm", "status", "delay", "notify"}

C36_DirectPathSafe ==
  /\ (route.pc \in DirectPcs \/ route.sends > 0) =>
       route.relayer \in {"threw", "not ok", "signature rejected"}
  /\ route.sends <= DIRECT_ATTEMPTS
  /\ route.delays = SubSeq(<<2000, 4000>>, 1, Len(route.delays))
  /\ route.pc = "send" => Len(route.delays) = route.sends - 1
  /\ (route.pc = "notify" \/ route.response.method = "direct") =>
       Len(route.failed) = route.sends - 1
  /\ Len(route.failed) <= route.sends

C36_DirectPathTerminates ==
  /\ []C36_DirectPathSafe
  /\ (route.pc # "idle") ~> (route.pc = "responded")

C36_Witness ==
  /\ route.pc = "responded"
  /\ route.relayer = "signature rejected"
  /\ route.sends = 3
  /\ route.delays = <<2000, 4000>>
  /\ route.response.method = "direct"

\* C37: every seed phrase that was saved can still be loaded: the entry
\* under its cache key holds that seed phrase, whatever was saved after it.
C37_SavedStaysLoadable ==
  \A p \in walletCache.saved :
    loadResult(walletCache.storage, generateCacheKey(p)).seedPhrase = p

\* C38: after any calls of patch and restore, window.fetch is the browser's
\* fetch, or one wrapper that passes on to the browser's fetch; it is the
\* wrapper exactly while isPatched; after a restore in the browser it is the
\* browser's fetch, after a patch in the browser the wrapper; a call without
\* effect (a repeated patch, a restore without patch) makes no new wrapper;
\* and every request goes to the browser's fetch, the API's through the proxy.
BrowserCalls(op) ==
  {k \in 1..Len(fetchPatch.calls) :
     fetchPatch.calls[k].op = op /\ fetchPatch.calls[k].window}

LastBrowserCall(op) ==
  /\ BrowserCalls(op) # {}
  /\ \A k \in BrowserCalls("patch") \cup BrowserCalls("restore") :
       \E j \in BrowserCalls(op) : j >= k

C38_PatchIdempotentReversible ==
  /\ \/ fetchPatch.windowFetch = NativeFetch
     \/ /\ fetchPatch.windowFetch.fn = "patchedFetch"
        /\ fetchPatch.originalFetch = NativeFetch
  /\ fetchPatch.isPatched <=> fetchPatch.windowFetch.fn = "patchedFetch"
  /\ LastBrowserCall("restore") => fetchPatch.windowFetch = NativeFetch
  /\ LastBrowserCall("patch") => fetchPatch.windowFetch.fn = "patchedFetch"
  /\ BrowserCalls("patch") = {} => fetchPatch.windowFetch = NativeFetch
  /\ fetchPatch.created <= Cardinality(BrowserCalls("restore")) + 1
  /\ \A k \in BrowserCalls("fetch") :
       /\ fetchPatch.calls[k].request.by = NativeFetch
       /\ fetchPatch.calls[k].request.url \in {fetchPatch.calls[k].asked,
                                               "/api/privacy-cash"}

C38_Witness ==
  /\ Len(fetchPatch.calls) = 4
  /\ fetchPatch.calls[1] = [op |-> "patch", window |-> TRUE]
  /\ fetchPatch.calls[2] = [op |-> "patch", window |-> TRUE]
  /\ fetchPatch.calls[3] = [op |-> "restore", window |-> TRUE]
  /\ fetchPatch.calls[4] = [op |-> "restore", window |-> TRUE]
  /\ fetchPatch.windowFetch = NativeFetch
  /\ fetchPatch.created = 1

=============================================================================
